---- MODULE Spec2Model ----
(***************************************************************************)
(* A model of ghui's application state engine: the update() transition     *)
(* function (src/app/update.rs), the fetch pipelines created by App::new   *)
(* (src/app/model.rs) and the host loop run_app (src/main.rs).             *)
(*                                                                         *)
(* Conventions.  Option<T> is a sequence of length at most one: None is    *)
(* <<>> and Some(x) is <<x>>.  Vec indices are 0-based as in the code, so  *)
(* element i of a Vec v is v[i + 1].  The App struct is one record, and    *)
(* every handler is an operator from an App record to a record             *)
(* [app |-> the App after the handler, cmd |-> the Option<Command>].       *)
(***************************************************************************)
EXTENDS Integers, Sequences, FiniteSets, TLC

\* ------------------------------------------------------------------ bounds

\* Requests the fetch pipelines accept in all in one run of the model,
\* the two of main() included.
MaxReq == 4
\* Key presses the user makes in one run of the model: in the views, and in
\* the PR list (where more keys are live at a time).
MaxKeys == 4
MaxListKeys == 3
\* Characters the search query holds at most.
MaxQuery == 1

\* ------------------------------------------------------------------ options

None == <<>>
Some(x) == <<x>>
IsSome(o) == Len(o) = 1
IsNone(o) == Len(o) = 0
Unwrap(o) == o[1]

\* ------------------------------------------------------------------ data

\* PrFilter: the Labels variant carries its label names.
PrFilter(kind, labels) == [kind |-> kind, labels |-> labels]
FilterMyPrs == PrFilter("MyPrs", <<>>)
FilterReviewRequested == PrFilter("ReviewRequested", <<>>)
FilterLabels(labels) == PrFilter("Labels", labels)

\* PullRequest, as fetch_prs_graphql builds it in the current repository o/r.
PullRequest(number, title, ci, sha) ==
    [number |-> number, title |-> title, branch |-> <<"f">>, author |-> <<"u">>,
     repo_owner |-> "o", repo_name |-> "r", ci_status |-> ci, head_sha |-> sha]

\* CiStatus::display, the text part.
CiText(ci) ==
    CASE ci = "Unknown" -> <<"N", "/", "A">>
      [] ci = "Pending" -> <<"o", " ", "P">>
      [] ci = "Success" -> <<"v", " ", "P">>
      [] OTHER -> <<"x", " ", "F">>

\* CiStatus::to_str followed by CiStatus::from_str: what a cache round trip
\* does to the status.
CiToStr(ci) ==
    CASE ci = "Unknown" -> "unknown"
      [] ci = "Pending" -> "pending"
      [] ci = "Success" -> "success"
      [] OTHER -> "failure"

CiFromStr(s) ==
    CASE s \in {"pending", "PENDING"} -> "Pending"
      [] s \in {"success", "SUCCESS"} -> "Success"
      [] s \in {"failure", "FAILURE", "error", "ERROR"} -> "Failure"
      [] OTHER -> "Unknown"

\* The pull requests of the modelled repository, as a fresh fetch reports them.
Sha == "sha1"
Pr1 == PullRequest(1, <<"x">>, "Success", Some(Sha))
Pr2 == PullRequest(2, <<"y", "X">>, "Unknown", Some(Sha))
\* A fetched PR whose last commit carries no oid (github.rs: head_sha is an Option).
Pr1NoSha == PullRequest(1, <<"x">>, "Success", None)

\* What fetch_prs_graphql can answer for a filter.
FetchLists(filter) ==
    CASE filter.kind = "MyPrs" -> {<<Pr1, Pr2>>, <<Pr1NoSha>>}
      [] filter.kind = "ReviewRequested" -> {<<Pr2>>}
      [] OTHER -> {<<Pr2, Pr1>>}

\* ------------------------------------------------------------------ cache store

\* The cache database file, shared by every ghui process of the user:
\* [exists, version, pull_requests, label_filters, next_id].  version is the
\* cache_meta row, an Option; a table is the sequence of its rows in rowid
\* order (the order a SELECT without ORDER BY scans them in); next_id is the
\* AUTOINCREMENT counter of label_filters.
CACHE_VERSION == 5

Store(exists, version, pull_requests, label_filters, next_id) ==
    [exists |-> exists, version |-> version, pull_requests |-> pull_requests,
     label_filters |-> label_filters, next_id |-> next_id]

\* No database file.
NoStore == Store(FALSE, None, <<>>, <<>>, 1)

\* PrFilter::to_str: the filter column; every Labels filter is "labels".
PrFilter_to_str(filter) ==
    CASE filter.kind = "MyPrs" -> "my_prs"
      [] filter.kind = "ReviewRequested" -> "review_requested"
      [] OTHER -> "labels"

\* A plausible bug: a version mismatch rewrites the version row and keeps the tables.
init_db_KeepTables(d) == [d EXCEPT !.exists = TRUE, !.version = Some(CACHE_VERSION)]

\* init_db: on a version other than CACHE_VERSION (or none) both data tables
\* are dropped and the version row is upserted; then the tables are created
\* if they do not exist.
init_db(d) ==
    IF d.version # Some(CACHE_VERSION)
    THEN Store(TRUE, Some(CACHE_VERSION), <<>>, <<>>, 1)
    ELSE [d EXCEPT !.exists = TRUE]

\* The values save_cache inserts for one PR: head_sha is not a column.
PullRequestsRow(pr, filter) ==
    [number |-> pr.number, title |-> pr.title, branch |-> pr.branch,
     repo_owner |-> pr.repo_owner, repo_name |-> pr.repo_name,
     ci_status |-> CiToStr(pr.ci_status), filter |-> PrFilter_to_str(filter),
     author |-> pr.author]

\* load_cache's row mapping.
RowToPr(row) ==
    [number |-> row.number, title |-> row.title, branch |-> row.branch,
     author |-> row.author, repo_owner |-> row.repo_owner,
     repo_name |-> row.repo_name, ci_status |-> CiFromStr(row.ci_status),
     head_sha |-> None]

\* The WHERE clause of load_cache and of save_cache's DELETE.
UnderKey(row, owner, repo, filter) ==
    /\ row.repo_owner = owner
    /\ row.repo_name = repo
    /\ row.filter = PrFilter_to_str(filter)

\* The primary key of pull_requests: (number, repo_owner, repo_name, filter).
SamePrimaryKey(r1, r2) ==
    /\ r1.number = r2.number
    /\ r1.repo_owner = r2.repo_owner
    /\ r1.repo_name = r2.repo_name
    /\ r1.filter = r2.filter

\* load_cache: [db |-> the store afterwards, prs |-> the Vec returned].
load_cache(d, owner, repo, filter) ==
    IF ~d.exists
    THEN [db |-> d, prs |-> <<>>]
    ELSE LET s == init_db(d)
             rows == SelectSeq(s.pull_requests, LAMBDA r : UnderKey(r, owner, repo, filter))
         IN [db |-> s, prs |-> [i \in 1..Len(rows) |-> RowToPr(rows[i])]]

\* save_cache's INSERT loop, each statement committed on its own: an INSERT
\* that meets its primary key in the table fails and `?` leaves the loop.
RECURSIVE InsertPrs(_, _, _)
InsertPrs(rows, prs, filter) ==
    IF prs = <<>>
    THEN rows
    ELSE LET row == PullRequestsRow(Head(prs), filter)
         IN IF \E i \in 1..Len(rows) : SamePrimaryKey(rows[i], row)
            THEN rows
            ELSE InsertPrs(Append(rows, row), Tail(prs), filter)

\* A plausible bug: the rows of the key are not deleted before the inserts.
save_cache_NoDelete(d, prs, owner, repo, filter) ==
    LET s == init_db(d)
    IN [s EXCEPT !.pull_requests = InsertPrs(s.pull_requests, prs, filter)]

\* save_cache: the store afterwards.
save_cache(d, prs, owner, repo, filter) ==
    LET s == init_db(d)
        kept == SelectSeq(s.pull_requests, LAMBDA r : ~UnderKey(r, owner, repo, filter))
    IN [s EXCEPT !.pull_requests = InsertPrs(kept, prs, filter)]

\* save_cache when SQLite may refuse a statement (disk full, database locked,
\* I/O error): fail is None, or Some(k) when the k-th conn.execute after
\* init_db returns Err, k = 0 being the DELETE and k = i the INSERT of the
\* i-th PR. No transaction is opened, so every statement before the failing
\* one stays committed. [db |-> the store afterwards, ok |-> Ok(()) returned].
save_cache_io(d, prs, owner, repo, filter, fail) ==
    LET s == init_db(d)
        kept == SelectSeq(s.pull_requests, LAMBDA r : ~UnderKey(r, owner, repo, filter))
    IN IF IsNone(fail)
       THEN LET rows == InsertPrs(kept, prs, filter)
            IN [db |-> [s EXCEPT !.pull_requests = rows],
                ok |-> Len(rows) = Len(kept) + Len(prs)]
       ELSE IF Unwrap(fail) = 0
       THEN [db |-> s, ok |-> FALSE]
       ELSE [db |-> [s EXCEPT !.pull_requests =
                         InsertPrs(kept, SubSeq(prs, 1, Unwrap(fail) - 1), filter)],
             ok |-> FALSE]

\* A label_filters row; repo_owner and repo_name are Options (NULL is None).
LabelFilter(id, label_name, repo_owner, repo_name) ==
    [id |-> id, label_name |-> label_name, repo_owner |-> repo_owner,
     repo_name |-> repo_name]

\* idx_label_filters_unique over (label_name, repo_owner, repo_name): SQLite
\* holds two NULLs of a unique index to be distinct, so a row conflicts only
\* with a row that equals it in three non-NULL values.
UniqueConflict(row, label_name, owner, repo) ==
    /\ row.label_name = label_name
    /\ IsSome(owner) /\ row.repo_owner = owner
    /\ IsSome(repo) /\ row.repo_name = repo

\* save_label_filter: INSERT ... ON CONFLICT DO NOTHING.
save_label_filter(d, label_name, owner, repo) ==
    LET s == init_db(d)
    IN IF \E i \in 1..Len(s.label_filters) :
              UniqueConflict(s.label_filters[i], label_name, owner, repo)
       THEN s
       ELSE [s EXCEPT !.label_filters =
                          Append(@, LabelFilter(s.next_id, label_name, owner, repo)),
                      !.next_id = @ + 1]

\* delete_label_filter.
delete_label_filter(d, id) ==
    IF ~d.exists
    THEN d
    ELSE LET s == init_db(d)
         IN [s EXCEPT !.label_filters = SelectSeq(@, LAMBDA r : r.id # id)]

\* A plausible bug: the head commit id is read back from the cache.
CacheRowKeepSha(pr) == [pr EXCEPT !.ci_status = CiFromStr(CiToStr(pr.ci_status))]

\* A PR after save_cache and load_cache: every persisted field, head_sha: None.
CacheRow(pr) == RowToPr(PullRequestsRow(pr, FilterMyPrs))

\* The cache file as an earlier run of ghui in o/r left it, and what
\* load_cache(..).unwrap_or_default() answers at startup: the rows of that
\* save, or nothing when the call fails.
CachedStore == save_cache(NoStore, <<Pr1, Pr2>>, "o", "r", FilterMyPrs)
CacheLists == {<<>>, <<CacheRow(Pr1), CacheRow(Pr2)>>}

\* ------------------------------------------------------------------ search

\* Case folding of the characters the model uses (CaseMatching::Ignore).
Lower(c) ==
    CASE c = "X" -> "x" [] c = "Y" -> "y" [] c = "N" -> "n" [] c = "A" -> "a"
      [] c = "P" -> "p" [] c = "F" -> "f" [] OTHER -> c

\* u64 Display for the PR numbers of the model.
Digits(n) == <<CASE n = 0 -> "0" [] n = 1 -> "1" [] n = 2 -> "2" [] n = 3 -> "3" [] OTHER -> "9">>

\* The haystack filter_prs builds: "#{number} {author} {title} {branch} {ci_text}".
Haystack(pr) ==
    <<"#">> \o Digits(pr.number) \o <<" ">> \o pr.author \o <<" ">> \o pr.title
        \o <<" ">> \o pr.branch \o <<" ">> \o CiText(pr.ci_status)

\* The matcher: the query's characters as a case-insensitive ordered
\* subsequence of the haystack, matched leftmost.  The result is the position
\* of the last matched character, or -1 when the query does not match.
RECURSIVE MatchFrom(_, _, _)
MatchFrom(h, q, i) ==
    IF q = <<>> THEN i - 1
    ELSE IF i > Len(h) THEN -1
    ELSE IF Lower(h[i]) = Lower(q[1]) THEN MatchFrom(h, Tail(q), i + 1)
    ELSE MatchFrom(h, q, i + 1)

FuzzyMatches(h, q) == MatchFrom(h, q, 1) # -1

\* The matcher's score: the earlier the match completes, the higher.
FuzzyScore(h, q) == 100 - MatchFrom(h, q, 1)

\* Insert position i into a list kept in descending score order, after every
\* entry of the same score (the sort is stable).
RECURSIVE InsertByScore(_, _, _, _)
InsertByScore(sorted, i, hay, q) ==
    IF sorted = <<>> THEN <<i>>
    ELSE IF FuzzyScore(hay[Head(sorted)], q) >= FuzzyScore(hay[i], q)
         THEN <<Head(sorted)>> \o InsertByScore(Tail(sorted), i, hay, q)
         ELSE <<i>> \o sorted

\* Pattern::match_list: the matching haystacks (by position), best score first.
RECURSIVE MatchList(_, _, _)
MatchList(hay, q, n) ==
    IF n = 0 THEN <<>>
    ELSE LET rest == MatchList(hay, q, n - 1)
         IN IF FuzzyMatches(hay[n], q) THEN InsertByScore(rest, n, hay, q) ELSE rest

\* filter_prs: all indices for an empty query; otherwise, for every match in
\* rank order, the position of the first haystack equal to the matched one.
filter_prs(prs, query) ==
    IF query = <<>> THEN [i \in 1..Len(prs) |-> i - 1]
    ELSE LET hay == [i \in 1..Len(prs) |-> Haystack(prs[i])]
             matches == MatchList(hay, query, Len(prs))
             position(h) == CHOOSE i \in 1..Len(hay) :
                                hay[i] = h /\ \A j \in 1..(i - 1) : hay[j] # h
         IN [k \in 1..Len(matches) |-> position(hay[matches[k]]) - 1]

\* ------------------------------------------------------------------ CircleCI URLs

\* A details URL: its host, its path segments and its query string.
Url(host, path, query) == [host |-> host, path |-> path, query |-> query]

\* The numerals that occur as path segments, and str::parse::<u64> on them.
NumVal(seg) == CASE seg = "123" -> 123 [] seg = "456" -> 456 [] OTHER -> -1
IsNumeric(seg) == NumVal(seg) # -1

\* A plausible bug: every details URL is taken for a CircleCI URL.
is_circleci_url_Any(url) == TRUE

\* is_circleci_url: url.contains("circleci.com").
is_circleci_url(url) == url.host \in {"circleci.com", "app.circleci.com"}

\* The index of the first "/jobs/" in the path: a segment "jobs" that another
\* segment follows; 0 when there is none.
JobsIdx(path) ==
    LET hits == {j \in 1..(Len(path) - 1) : path[j] = "jobs"}
    IN IF hits = {} THEN 0 ELSE CHOOSE j \in hits : \A k \in hits : j <= k

\* The last numeric path segment, 0 when there is none.
LastNumericIdx(path) ==
    LET hits == {j \in 1..Len(path) : IsNumeric(path[j])}
    IN IF hits = {} THEN 0 ELSE CHOOSE j \in hits : \A k \in hits : j >= k

\* extract_job_number_from_url.  The query string is cut off first, so only
\* host and path decide.
extract_job_number_from_url(url) ==
    IF ~is_circleci_url(url) THEN None
    ELSE IF JobsIdx(url.path) # 0 /\ IsNumeric(url.path[JobsIdx(url.path) + 1])
         THEN Some(NumVal(url.path[JobsIdx(url.path) + 1]))
    ELSE IF \E j \in 1..Len(url.path) : url.path[j] = "pipelines" THEN None
    ELSE IF LastNumericIdx(url.path) # 0
         THEN Some(NumVal(url.path[LastNumericIdx(url.path)]))
    ELSE None

UrlGithub == Url("github.com", <<"o", "r", "runs", "123">>, "")
UrlLegacy == Url("circleci.com", <<"gh", "o", "r", "123">>, "q=1")
UrlLegacyNoNumber == Url("circleci.com", <<"gh", "o", "r">>, "")
UrlJobs == Url("app.circleci.com",
               <<"pipelines", "gh", "o", "r", "123", "workflows", "abc", "jobs", "456">>, "")
UrlWorkflow == Url("app.circleci.com",
                   <<"pipelines", "gh", "o", "r", "123", "workflows", "abc">>, "")

\* ------------------------------------------------------------------ CI data

WorkflowJob(id, status, conclusion, url, summary, text, annotations) ==
    [id |-> id, status |-> status, conclusion |-> conclusion, details_url |-> url,
     summary |-> summary, text |-> text, annotations |-> annotations]

WorkflowRun(status, jobs) == [status |-> status, jobs |-> jobs]

ActionsData(pr_number, runs, error) ==
    [pr_number |-> pr_number, workflow_runs |-> runs, error |-> error]

\* JobLogs: content is one of the texts the engine shows, steps an Option.
JobLogs(job_id, content, steps) == [job_id |-> job_id, content |-> content, steps |-> steps]

\* PreviewData: every comment is the number of lines its body renders to.
PreviewData(pr_number, comments) == [pr_number |-> pr_number, comments |-> comments]

JobPlain == WorkflowJob(11, "Completed", Some("Success"), None, None, None, <<>>)
JobCircle == WorkflowJob(12, "Completed", Some("Failure"), Some(UrlJobs), None, None, <<>>)
JobWorkflowUrl == WorkflowJob(13, "Completed", Some("Success"), Some(UrlWorkflow), None, None, <<>>)
JobRunning == WorkflowJob(14, "InProgress", None, Some(UrlLegacyNoNumber), None, None, <<>>)
JobLegacy == WorkflowJob(15, "Completed", Some("Success"), Some(UrlLegacy), None, None, <<>>)
JobGithub == WorkflowJob(16, "Completed", Some("TimedOut"), Some(UrlGithub), Some(<<>>), None, <<>>)

JobAnnotated == WorkflowJob(17, "Completed", Some("Failure"), Some(UrlJobs),
                            Some(<<"reviewdog", "Findings (1)">>), None, <<"ann1", "ann2">>)
JobReviewdogEmpty == WorkflowJob(18, "Completed", Some("Success"), Some(UrlJobs),
                                 Some(<<"reviewdog", "Findings (0)">>), None, <<>>)
JobSummary == WorkflowJob(19, "Completed", Some("Success"), Some(UrlJobs),
                          Some(<<"report">>), Some(<<"details">>), <<>>)

\* What fetch_actions_for_pr can answer as the runs of a PR.
RunsDone == <<WorkflowRun("Completed", <<JobPlain, JobCircle, JobWorkflowUrl>>),
              WorkflowRun("Completed", <<JobAnnotated, JobReviewdogEmpty, JobSummary>>)>>
RunsPending == <<WorkflowRun("InProgress", <<JobRunning>>),
                 WorkflowRun("Completed", <<JobLegacy, JobGithub>>)>>
RunLists == {RunsDone, RunsPending}

\* The jobs of all runs in display order (the order the flat job index counts).
RECURSIVE FlatJobs(_)
FlatJobs(runs) == IF runs = <<>> THEN <<>> ELSE Head(runs).jobs \o FlatJobs(Tail(runs))

\* calculate_preview_positions: (comment_positions, total_lines).
RECURSIVE PreviewPositionsFrom(_, _, _)
PreviewPositionsFrom(comments, idx, line) ==
    IF idx > Len(comments) THEN [positions |-> <<>>, total |-> line]
    ELSE LET start == IF idx > 1 THEN line + 3 ELSE line
             rest == PreviewPositionsFrom(comments, idx + 1, start + 2 + comments[idx])
         IN [positions |-> <<start>> \o rest.positions, total |-> rest.total]

calculate_preview_positions(comments) == PreviewPositionsFrom(comments, 1, 0)

\* ------------------------------------------------------------------ the App

\* App::new, given what load_cache answers for the three filters.  The
\* *_elapsed fields stand for "30 s have passed" since last_actions_poll and
\* last_main_refresh.
AppNew(my, review, labels) ==
    [my_prs |-> my, review_prs |-> review, labels_prs |-> labels,
     configured_labels |-> <<"bug">>,
     pr_filter |-> FilterMyPrs,
     table_state |-> IF my # <<>> THEN Some(0) ELSE None,
     filtered_indices |-> [i \in 1..Len(my) |-> i - 1],
     search_mode |-> FALSE, search_query |-> <<>>,
     loading_my_prs |-> TRUE, loading_review_prs |-> TRUE, loading_labels_prs |-> FALSE,
     show_help_popup |-> FALSE, show_checkout_popup |-> FALSE, show_error_popup |-> FALSE,
     show_labels_popup |-> FALSE, show_add_label_popup |-> FALSE,
     show_workflows_view |-> FALSE, actions_data |-> None, actions_loading |-> FALSE,
     selected_job_index |-> 0, actions_poll_enabled |-> FALSE,
     actions_poll_elapsed |-> FALSE,
     actions_pending_pr_number |-> None, workflows_pr_info |-> None,
     main_refresh_elapsed |-> FALSE,
     show_job_logs |-> FALSE, job_logs |-> None, job_logs_loading |-> FALSE,
     job_logs_scroll |-> 0,
     job_logs_selected_step |-> 0, job_logs_expanded_steps |-> <<>>,
     job_logs_selected_sub_step |-> None, job_logs_expanded_sub_steps |-> <<>>,
     annotations_view |-> FALSE, annotations |-> <<>>,
     selected_annotation_index |-> 0, selected_annotations |-> <<>>,
     show_preview_view |-> FALSE, preview_data |-> None, preview_loading |-> FALSE,
     preview_scroll |-> 0, preview_section_index |-> 0,
     preview_comment_positions |-> <<>>, preview_total_lines |-> 0,
     preview_pr_info |-> None,
     show_url_popup |-> None, error |-> None, pending_checkout_branch |-> None]

current_prs(a) ==
    CASE a.pr_filter.kind = "MyPrs" -> a.my_prs
      [] a.pr_filter.kind = "ReviewRequested" -> a.review_prs
      [] OTHER -> a.labels_prs

is_loading(a) ==
    CASE a.pr_filter.kind = "MyPrs" -> a.loading_my_prs
      [] a.pr_filter.kind = "ReviewRequested" -> a.loading_review_prs
      [] OTHER -> a.loading_labels_prs

get_active_labels(a) == a.configured_labels

\* Vec::get on a 0-based index.
Get(v, i) == IF i >= 0 /\ i < Len(v) THEN Some(v[i + 1]) ELSE None

selected_pr(a) ==
    IF IsNone(a.table_state) THEN None
    ELSE LET idx == Get(a.filtered_indices, Unwrap(a.table_state))
         IN IF IsNone(idx) THEN None ELSE Get(current_prs(a), Unwrap(idx))

should_poll_actions(a) ==
    /\ a.show_workflows_view
    /\ a.actions_poll_enabled
    /\ ~a.actions_loading
    /\ a.actions_poll_elapsed

should_refresh_main(a) ==
    /\ ~a.show_workflows_view
    /\ ~a.show_preview_view
    /\ ~a.show_help_popup
    /\ ~a.show_checkout_popup
    /\ ~a.show_error_popup
    /\ ~a.show_labels_popup
    /\ ~a.show_add_label_popup
    /\ ~is_loading(a)
    /\ a.main_refresh_elapsed

\* ------------------------------------------------------------------ messages and commands

\* FetchResult
Success(prs, filter) == [kind |-> "Success", prs |-> prs, filter |-> filter]
Error(e) == [kind |-> "Error", e |-> e]
ActionsSuccess(data) == [kind |-> "ActionsSuccess", data |-> data]
ActionsError(e) == [kind |-> "ActionsError", e |-> e]
JobLogsSuccess(logs) == [kind |-> "JobLogsSuccess", logs |-> logs]
JobLogsError(e) == [kind |-> "JobLogsError", e |-> e]
PreviewSuccess(data) == [kind |-> "PreviewSuccess", data |-> data]
PreviewError(e) == [kind |-> "PreviewError", e |-> e]

\* Command
StartFetch(filter) == [kind |-> "StartFetch", filter |-> filter]
StartActionsFetch(pr_number, head_sha) ==
    [kind |-> "StartActionsFetch", pr_number |-> pr_number, head_sha |-> head_sha]
StartJobLogsFetch(job_id) == [kind |-> "StartJobLogsFetch", job_id |-> job_id]
StartCircleCIJobLogsFetch(job_number) ==
    [kind |-> "StartCircleCIJobLogsFetch", job_number |-> job_number]
StartPreviewFetch(pr_number) == [kind |-> "StartPreviewFetch", pr_number |-> pr_number]
Quit == [kind |-> "Quit"]
ExitAfterCheckout == [kind |-> "ExitAfterCheckout"]

\* Message: a kind, and for the messages that carry one, a payload.
Msg(kind) == [kind |-> kind]
SwitchTab(filter) == [kind |-> "SwitchTab", filter |-> filter]
SearchInput(c) == [kind |-> "SearchInput", c |-> c]
ExitSearchMode(clear) == [kind |-> "ExitSearchMode", clear |-> clear]
FetchComplete(result) == [kind |-> "FetchComplete", result |-> result]
ActionsDataReceived(result) == [kind |-> "ActionsDataReceived", result |-> result]
JobLogsReceived(result) == [kind |-> "JobLogsReceived", result |-> result]
PreviewDataReceived(result) == [kind |-> "PreviewDataReceived", result |-> result]
\* OpenSelected carries no payload; container is what is_container() answers
\* in the update() call of this message.
OpenSelected(container) == [kind |-> "OpenSelected", container |-> container]
\* ConfirmCheckout carries no payload; checkout is what checkout_branch
\* returns in the update() call of this message, drawn with the message.
ConfirmCheckout(checkout) == [kind |-> "ConfirmCheckout", checkout |-> checkout]

\* What a handler returns: the App it leaves and the Option<Command>.
R(a, cmd) == [app |-> a, cmd |-> cmd]

\* ------------------------------------------------------------------ list handlers

\* A plausible bug: the cursor is not put on the first row.
SelectFirstNever(a) == a

\* TableState::select(Some(0)) when the filtered list is not empty.
SelectFirst(a) ==
    IF a.filtered_indices # <<>> THEN [a EXCEPT !.table_state = Some(0)] ELSE a

next_item(a) ==
    IF a.filtered_indices = <<>> THEN a
    ELSE LET i == IF IsSome(a.table_state)
                  THEN IF Unwrap(a.table_state) >= Len(a.filtered_indices) - 1
                       THEN Unwrap(a.table_state)
                       ELSE Unwrap(a.table_state) + 1
                  ELSE 0
         IN [a EXCEPT !.table_state = Some(i)]

previous_item(a) ==
    IF a.filtered_indices = <<>> THEN a
    ELSE LET i == IF IsSome(a.table_state)
                  THEN IF Unwrap(a.table_state) = 0 THEN 0 ELSE Unwrap(a.table_state) - 1
                  ELSE 0
         IN [a EXCEPT !.table_state = Some(i)]

\* A plausible bug: the filtered indices are recomputed without the query.
update_filtered_indices_NoQuery(a) ==
    [a EXCEPT !.filtered_indices = filter_prs(current_prs(a), <<>>)]

update_filtered_indices(a) ==
    [a EXCEPT !.filtered_indices = filter_prs(current_prs(a), a.search_query)]

\* A plausible bug: the tab is switched without recomputing the filtered indices.
switch_filter_Stale(a, filter) ==
    IF a.pr_filter # filter
    THEN SelectFirst([a EXCEPT !.pr_filter = filter, !.table_state = None,
                               !.search_mode = FALSE, !.search_query = <<>>])
    ELSE a

switch_filter(a, filter) ==
    IF a.pr_filter # filter
    THEN SelectFirst(update_filtered_indices(
             [a EXCEPT !.pr_filter = filter, !.table_state = None,
                       !.search_mode = FALSE, !.search_query = <<>>]))
    ELSE a

exit_search_mode(a, clear_query) ==
    IF clear_query
    THEN SelectFirst([update_filtered_indices(
                         [a EXCEPT !.search_mode = FALSE, !.search_query = <<>>])
                      EXCEPT !.table_state = None])
    ELSE [a EXCEPT !.search_mode = FALSE]

search_push_char(a, c) ==
    SelectFirst([update_filtered_indices([a EXCEPT !.search_query = Append(@, c)])
                 EXCEPT !.table_state = None])

search_pop_char(a) ==
    SelectFirst([update_filtered_indices(
                    [a EXCEPT !.search_query =
                                  IF @ = <<>> THEN <<>> ELSE SubSeq(@, 1, Len(@) - 1)])
                 EXCEPT !.table_state = None])

\* The first element of prs with the given number (Iterator::find).
FindPr(prs, number) ==
    LET hits == {i \in 1..Len(prs) : prs[i].number = number}
    IN IF hits = {} THEN None ELSE Some(prs[CHOOSE i \in hits : \A j \in hits : i <= j])

\* A plausible bug: a result is added to the bucket it is for.
SetBucketAppend(a, kind, prs) ==
    CASE kind = "MyPrs" -> [a EXCEPT !.my_prs = @ \o prs, !.loading_my_prs = FALSE]
      [] kind = "ReviewRequested" ->
           [a EXCEPT !.review_prs = @ \o prs, !.loading_review_prs = FALSE]
      [] OTHER -> [a EXCEPT !.labels_prs = @ \o prs, !.loading_labels_prs = FALSE]

\* The bucket and the loading flag of a filter kind are set.
SetBucket(a, kind, prs) ==
    CASE kind = "MyPrs" -> [a EXCEPT !.my_prs = prs, !.loading_my_prs = FALSE]
      [] kind = "ReviewRequested" -> [a EXCEPT !.review_prs = prs, !.loading_review_prs = FALSE]
      [] OTHER -> [a EXCEPT !.labels_prs = prs, !.loading_labels_prs = FALSE]

\* A plausible bug: the result is stored in the displayed filter's bucket.
StoreDisplayed(a, filter, new_prs) == SetBucket(a, a.pr_filter.kind, new_prs)

\* handle_fetch_result's match on the result's filter.
StoreResult(a, filter, new_prs) == SetBucket(a, filter.kind, new_prs)

\* A plausible bug: the pending PR is never looked for.
PendingPrNever(a, new_prs) == None

\* The PR handle_fetch_result is waiting for, when new_prs holds it.
PendingPr(a, new_prs) ==
    IF IsSome(a.actions_pending_pr_number)
    THEN FindPr(new_prs, Unwrap(a.actions_pending_pr_number))
    ELSE None

\* A plausible bug: a failed fetch empties the displayed list.
FetchErrorEmptiesList(a, e) ==
    update_filtered_indices(
        [SetBucket(a, a.pr_filter.kind, <<>>) EXCEPT
            !.error = Some(e), !.show_error_popup = TRUE, !.loading_my_prs = FALSE,
            !.loading_review_prs = FALSE, !.loading_labels_prs = FALSE])

\* The FetchResult::Error arm of handle_fetch_result.
FetchError(a, e) ==
    LET a1 == IF IsSome(a.actions_pending_pr_number)
              THEN [a EXCEPT !.actions_pending_pr_number = None,
                             !.actions_loading = FALSE]
              ELSE a
    IN [a1 EXCEPT !.error = Some(e), !.show_error_popup = TRUE,
                  !.loading_my_prs = FALSE, !.loading_review_prs = FALSE,
                  !.loading_labels_prs = FALSE]

handle_fetch_result(a, result) ==
    CASE result.kind = "Success" ->
           LET new_prs == result.prs
               filter == result.filter
               is_current_filter == a.pr_filter.kind = filter.kind
               pr == PendingPr(a, new_prs)
               found == IsSome(pr) /\ IsSome(Unwrap(pr).head_sha)
               a1 == IF found
                     THEN [a EXCEPT !.actions_pending_pr_number = None,
                                    !.actions_poll_enabled = TRUE]
                     ELSE a
               a2 == StoreResult(a1, filter, new_prs)
               a3 == IF is_current_filter
                     THEN LET f == update_filtered_indices(a2)
                          IN IF IsNone(f.table_state) THEN SelectFirst(f) ELSE f
                     ELSE a2
           IN R(a3, IF found
                    THEN Some(StartActionsFetch(Unwrap(pr).number, Unwrap(Unwrap(pr).head_sha)))
                    ELSE None)
      [] result.kind = "Error" -> R(FetchError(a, result.e), None)
      [] OTHER -> R(a, None)

\* ------------------------------------------------------------------ browser

\* open_url: Some(url) when the URL is to be displayed (in a container),
\* None when the browser was started.
open_url(url, container) == IF container THEN Some(url) ELSE None

open_selected(a, container) ==
    LET pr == selected_pr(a)
    IN IF IsSome(pr)
       THEN LET url == <<"https://github.com/", Unwrap(pr).repo_owner, "/",
                         Unwrap(pr).repo_name, "/pull/", Unwrap(pr).number>>
                display_url == open_url(url, container)
            IN IF IsSome(display_url) THEN [a EXCEPT !.show_url_popup = display_url] ELSE a
       ELSE a

\* ------------------------------------------------------------------ checkout

prompt_checkout(a) ==
    LET pr == selected_pr(a)
    IN IF IsSome(pr)
       THEN [a EXCEPT !.pending_checkout_branch = Some(Unwrap(pr).branch),
                      !.show_checkout_popup = TRUE]
       ELSE a

\* What checkout_branch can return: Ok(()) or Err of git's message.
CheckoutResults == {[kind |-> "Ok"], [kind |-> "Err", e |-> <<"git failed">>]}

\* confirm_checkout: [app, ok], ok the bool it returns.  The pending branch
\* is taken out of the App before checkout_branch runs.
confirm_checkout(a, checkout) ==
    IF IsSome(a.pending_checkout_branch)
    THEN LET a1 == [a EXCEPT !.pending_checkout_branch = None,
                             !.show_checkout_popup = FALSE]
         IN IF checkout.kind = "Ok"
            THEN [app |-> a1, ok |-> TRUE]
            ELSE [app |-> [a1 EXCEPT !.error = Some(checkout.e),
                                     !.show_error_popup = TRUE],
                  ok |-> FALSE]
    ELSE [app |-> a, ok |-> FALSE]

\* ------------------------------------------------------------------ workflows view

open_workflows_view(a) ==
    LET pr_data == selected_pr(a)
    IN IF IsSome(pr_data)
       THEN LET pr == Unwrap(pr_data)
                a1 == [a EXCEPT !.show_workflows_view = TRUE, !.actions_loading = TRUE,
                                !.selected_job_index = 0, !.actions_data = None,
                                !.workflows_pr_info = Some(pr.number),
                                !.show_job_logs = FALSE, !.job_logs = None]
            IN IF IsSome(pr.head_sha)
               THEN R([a1 EXCEPT !.actions_poll_enabled = TRUE,
                                 !.actions_pending_pr_number = None],
                      Some(StartActionsFetch(pr.number, Unwrap(pr.head_sha))))
               ELSE R([a1 EXCEPT !.actions_pending_pr_number = Some(pr.number),
                                 !.actions_poll_enabled = FALSE],
                      Some(StartFetch(a.pr_filter)))
       ELSE R(a, None)

close_workflows_view(a) ==
    [a EXCEPT !.show_workflows_view = FALSE, !.actions_poll_enabled = FALSE,
              !.actions_data = None, !.actions_loading = FALSE,
              !.selected_job_index = 0, !.actions_pending_pr_number = None,
              !.workflows_pr_info = None, !.show_job_logs = FALSE,
              !.job_logs = None, !.job_logs_loading = FALSE]

IsFailureConclusion(c) ==
    IsSome(c) /\ Unwrap(c) \in {"Failure", "TimedOut", "StartupFailure"}

\* A plausible bug: the index is counted within the run of the failed job.
FirstFailedIndexInRun(runs) ==
    LET hits == {r \in 1..Len(runs) :
                    \E i \in 1..Len(runs[r].jobs) : IsFailureConclusion(runs[r].jobs[i].conclusion)}
    IN IF hits = {} THEN None
       ELSE LET r == CHOOSE r \in hits : \A q \in hits : r <= q
                jobs == runs[r].jobs
                js == {i \in 1..Len(jobs) : IsFailureConclusion(jobs[i].conclusion)}
            IN Some((CHOOSE i \in js : \A j \in js : i <= j) - 1)

\* The flat index of the first job with a failure conclusion.
FirstFailedIndex(runs) ==
    LET jobs == FlatJobs(runs)
        hits == {i \in 1..Len(jobs) : IsFailureConclusion(jobs[i].conclusion)}
    IN IF hits = {} THEN None ELSE Some((CHOOSE i \in hits : \A j \in hits : i <= j) - 1)

handle_actions_result(a, result) ==
    CASE result.kind = "ActionsSuccess" ->
           LET data == result.data
               has_pending == \E i \in 1..Len(data.workflow_runs) :
                                  data.workflow_runs[i].status \in
                                      {"InProgress", "Queued", "Pending"}
               first_failed_index == FirstFailedIndex(data.workflow_runs)
           IN [a EXCEPT !.actions_poll_enabled = has_pending,
                        !.selected_job_index =
                            IF IsSome(first_failed_index) THEN Unwrap(first_failed_index) ELSE 0,
                        !.actions_data = Some(data),
                        !.actions_loading = FALSE]
      [] result.kind = "ActionsError" ->
           IF IsSome(a.actions_data)
           THEN [a EXCEPT !.actions_loading = FALSE,
                          !.actions_data = Some([Unwrap(@) EXCEPT !.error = Some(result.e)])]
           ELSE [a EXCEPT !.actions_loading = FALSE,
                          !.error = Some(result.e), !.show_error_popup = TRUE]
      [] OTHER -> a

refresh_actions(a) ==
    IF ~a.show_workflows_view THEN R(a, None)
    ELSE LET pr_data == selected_pr(a)
         IN IF IsSome(pr_data) /\ IsSome(Unwrap(pr_data).head_sha)
            THEN R([a EXCEPT !.actions_loading = TRUE],
                   Some(StartActionsFetch(Unwrap(pr_data).number,
                                          Unwrap(Unwrap(pr_data).head_sha))))
            ELSE R(a, None)

actions_next_job(a) ==
    IF IsSome(a.actions_data)
    THEN LET total_jobs == Len(FlatJobs(Unwrap(a.actions_data).workflow_runs))
         IN IF a.selected_job_index < (IF total_jobs = 0 THEN 0 ELSE total_jobs - 1)
            THEN [a EXCEPT !.selected_job_index = @ + 1]
            ELSE a
    ELSE a

actions_previous_job(a) ==
    IF a.selected_job_index > 0 THEN [a EXCEPT !.selected_job_index = @ - 1] ELSE a

\* ------------------------------------------------------------------ job logs

\* The selected job, None when no PR is selected or the index names no job.
get_selected_job(a) ==
    IF IsNone(selected_pr(a)) THEN None
    ELSE IF IsSome(a.actions_data)
         THEN Get(FlatJobs(Unwrap(a.actions_data).workflow_runs), a.selected_job_index)
         ELSE None

\* Option<String>: present and not empty.
NonEmpty(o) == IsSome(o) /\ Unwrap(o) # <<>>

\* A plausible bug: every summary that is not empty matches.
ContainsAnything(text, phrase) == text # <<>>

\* str::contains on a text given as its phrases.
Contains(text, phrase) == \E i \in 1..Len(text) : text[i] = phrase

\* A plausible bug: the token is taken to be set.
is_circleci_configured_Always(env) == TRUE

\* Reads the CIRCLECI_TOKEN variable of the environment.
is_circleci_configured(env) == env.circleci_token

open_job_logs(a, env) ==
    LET sel == get_selected_job(a)
    IN IF IsNone(sel) THEN R(a, None)
       ELSE LET job == Unwrap(sel)
                a0 == [a EXCEPT !.show_job_logs = TRUE, !.job_logs_scroll = 0]
                is_empty_reviewdog ==
                    /\ IsSome(job.summary)
                    /\ Contains(Unwrap(job.summary), "reviewdog")
                    /\ Contains(Unwrap(job.summary), "Findings (0)")
                shown(content) ==
                    [a0 EXCEPT !.annotations_view = FALSE, !.annotations = <<>>,
                               !.job_logs = Some(JobLogs(job.id, content, None)),
                               !.job_logs_loading = FALSE]
                fetching == [a0 EXCEPT !.annotations_view = FALSE, !.annotations = <<>>,
                                       !.job_logs_loading = TRUE, !.job_logs = None]
            IN IF job.annotations # <<>>
               THEN R([a0 EXCEPT !.annotations_view = TRUE,
                                 !.annotations = job.annotations,
                                 !.selected_annotation_index = 0,
                                 !.job_logs = Some(JobLogs(job.id, "", None)),
                                 !.job_logs_loading = FALSE], None)
               ELSE IF is_empty_reviewdog THEN R(shown("No issues found"), None)
               ELSE IF NonEmpty(job.summary) \/ NonEmpty(job.text)
                    THEN R(shown("Summary and details"), None)
               ELSE IF IsSome(job.details_url) /\ is_circleci_url(Unwrap(job.details_url))
                    THEN IF ~is_circleci_configured(env)
                         THEN R([fetching EXCEPT
                                    !.job_logs_loading = FALSE,
                                    !.job_logs = Some(JobLogs(job.id, "CircleCI Token Required",
                                                              None))], None)
                         ELSE LET job_number ==
                                      extract_job_number_from_url(Unwrap(job.details_url))
                              IN IF IsSome(job_number)
                                 THEN R(fetching,
                                        Some(StartCircleCIJobLogsFetch(Unwrap(job_number))))
                                 ELSE R(fetching, Some(StartJobLogsFetch(job.id)))
               ELSE R(fetching, Some(StartJobLogsFetch(job.id)))

close_job_logs(a) ==
    [a EXCEPT !.show_job_logs = FALSE, !.job_logs = None, !.job_logs_loading = FALSE,
              !.job_logs_scroll = 0, !.job_logs_selected_step = 0,
              !.job_logs_expanded_steps = <<>>, !.job_logs_selected_sub_step = None,
              !.job_logs_expanded_sub_steps = <<>>, !.annotations_view = FALSE,
              !.annotations = <<>>, !.selected_annotation_index = 0,
              !.selected_annotations = <<>>]

\* A plausible bug: the failed entry is not looked for.
FirstFailedNever(steps) == None

\* Iterator::position(|s| s.is_failed) as an Option of a 0-based index.
FirstFailed(steps) ==
    LET hits == {i \in 1..Len(steps) : steps[i].is_failed}
    IN IF hits = {} THEN None ELSE Some((CHOOSE i \in hits : \A j \in hits : i <= j) - 1)

handle_job_logs_result(a, result) ==
    CASE result.kind = "JobLogsSuccess" ->
           LET logs == result.logs
               a1 == IF IsSome(logs.steps)
                     THEN LET steps == Unwrap(logs.steps)
                              first == FirstFailed(steps)
                              selected == IF IsSome(first) THEN Unwrap(first) ELSE 0
                              step == Get(steps, selected)
                          IN [a EXCEPT
                                 !.job_logs_expanded_steps =
                                     [i \in 1..Len(steps) |-> steps[i].is_failed],
                                 !.job_logs_expanded_sub_steps =
                                     [i \in 1..Len(steps) |->
                                         IF IsSome(steps[i].sub_steps)
                                         THEN [j \in 1..Len(Unwrap(steps[i].sub_steps)) |-> FALSE]
                                         ELSE <<>>],
                                 !.job_logs_selected_step = selected,
                                 !.job_logs_selected_sub_step =
                                     IF IsSome(step) /\ IsSome(Unwrap(step).sub_steps)
                                     THEN FirstFailed(Unwrap(Unwrap(step).sub_steps))
                                     ELSE None]
                     ELSE [a EXCEPT !.job_logs_expanded_steps = <<>>,
                                    !.job_logs_expanded_sub_steps = <<>>,
                                    !.job_logs_selected_step = 0,
                                    !.job_logs_selected_sub_step = None]
           IN [a1 EXCEPT !.job_logs = Some(logs), !.job_logs_loading = FALSE,
                         !.job_logs_scroll = 0]
      [] result.kind = "JobLogsError" ->
           [a EXCEPT !.job_logs_loading = FALSE,
                     !.error = Some(<<"Failed to load logs: ">> \o result.e),
                     !.show_error_popup = TRUE]
      [] OTHER -> a

\* u16::saturating_sub and usize::saturating_sub.
saturating_sub(x, y) == IF x > y THEN x - y ELSE 0

\* The sub-steps of step i (0-based) of a step list: empty when the step
\* does not exist or has none.
SubStepsOf(steps, i) ==
    LET s == Get(steps, i)
    IN IF IsSome(s) /\ IsSome(Unwrap(s).sub_steps) THEN Unwrap(Unwrap(s).sub_steps) ELSE <<>>

\* job_logs_expanded_steps.get(i).copied().unwrap_or(false)
IsExpanded(a, i) ==
    LET e == Get(a.job_logs_expanded_steps, i) IN IsSome(e) /\ Unwrap(e)

\* A plausible bug: the sub-steps of an expanded step are stepped over.
job_logs_next_step_Flat(a) ==
    IF IsSome(a.job_logs) /\ IsSome(Unwrap(a.job_logs).steps)
    THEN LET steps == Unwrap(Unwrap(a.job_logs).steps)
         IN IF a.job_logs_selected_step < saturating_sub(Len(steps), 1)
            THEN [a EXCEPT !.job_logs_selected_step = @ + 1,
                           !.job_logs_selected_sub_step = None]
            ELSE a
    ELSE a

job_logs_next_step(a) ==
    IF IsSome(a.job_logs) /\ IsSome(Unwrap(a.job_logs).steps)
    THEN LET steps == Unwrap(Unwrap(a.job_logs).steps)
             current_step == a.job_logs_selected_step
             current_sub == a.job_logs_selected_sub_step
             is_expanded == IsExpanded(a, current_step)
             sub_steps_len == Len(SubStepsOf(steps, current_step))
             has_sub_steps == sub_steps_len > 0
             next_top == IF current_step < saturating_sub(Len(steps), 1)
                         THEN [a EXCEPT !.job_logs_selected_step = current_step + 1,
                                        !.job_logs_selected_sub_step = None]
                         ELSE a
         IN IF has_sub_steps /\ is_expanded
            THEN IF IsNone(current_sub)
                 THEN [a EXCEPT !.job_logs_selected_sub_step = Some(0)]
                 ELSE IF Unwrap(current_sub) < saturating_sub(sub_steps_len, 1)
                      THEN [a EXCEPT !.job_logs_selected_sub_step =
                                         Some(Unwrap(current_sub) + 1)]
                      ELSE next_top
            ELSE next_top
    ELSE a

\* A plausible bug: the last sub-step of an expanded previous step is not landed on.
job_logs_prev_step_Top(a) ==
    IF IsSome(a.job_logs) /\ IsSome(Unwrap(a.job_logs).steps)
    THEN IF IsSome(a.job_logs_selected_sub_step)
         THEN IF Unwrap(a.job_logs_selected_sub_step) > 0
              THEN [a EXCEPT !.job_logs_selected_sub_step = Some(Unwrap(@) - 1)]
              ELSE [a EXCEPT !.job_logs_selected_sub_step = None]
         ELSE IF a.job_logs_selected_step > 0
              THEN [a EXCEPT !.job_logs_selected_step = @ - 1]
              ELSE a
    ELSE a

job_logs_prev_step(a) ==
    IF IsSome(a.job_logs) /\ IsSome(Unwrap(a.job_logs).steps)
    THEN LET steps == Unwrap(Unwrap(a.job_logs).steps)
             current_step == a.job_logs_selected_step
             current_sub == a.job_logs_selected_sub_step
         IN IF IsSome(current_sub)
            THEN IF Unwrap(current_sub) > 0
                 THEN [a EXCEPT !.job_logs_selected_sub_step = Some(Unwrap(current_sub) - 1)]
                 ELSE [a EXCEPT !.job_logs_selected_sub_step = None]
            ELSE IF current_step > 0
                 THEN LET prev_step == current_step - 1
                          prev_sub_steps_len == Len(SubStepsOf(steps, prev_step))
                      IN [a EXCEPT
                             !.job_logs_selected_step = prev_step,
                             !.job_logs_selected_sub_step =
                                 IF IsExpanded(a, prev_step) /\ prev_sub_steps_len > 0
                                 THEN Some(prev_sub_steps_len - 1)
                                 ELSE None]
                 ELSE a
    ELSE a

\* A plausible bug: the toggle always folds the selected container, also
\* while one of its sub-steps is selected.
job_logs_toggle_step_Container(a) ==
    IF a.job_logs_selected_step < Len(a.job_logs_expanded_steps)
    THEN [a EXCEPT !.job_logs_expanded_steps[a.job_logs_selected_step + 1] = ~@]
    ELSE a

job_logs_toggle_step(a) ==
    LET step_idx == a.job_logs_selected_step
    IN IF IsSome(a.job_logs_selected_sub_step)
       THEN LET sub_idx == Unwrap(a.job_logs_selected_sub_step)
            IN IF /\ step_idx < Len(a.job_logs_expanded_sub_steps)
                  /\ sub_idx < Len(a.job_logs_expanded_sub_steps[step_idx + 1])
               THEN [a EXCEPT !.job_logs_expanded_sub_steps[step_idx + 1][sub_idx + 1] = ~@]
               ELSE a
       ELSE IF step_idx < Len(a.job_logs_expanded_steps)
            THEN [a EXCEPT !.job_logs_expanded_steps[step_idx + 1] = ~@]
            ELSE a

\* ------------------------------------------------------------------ preview view

open_preview_view(a) ==
    LET pr_data == selected_pr(a)
    IN IF IsSome(pr_data)
       THEN R([a EXCEPT !.show_preview_view = TRUE, !.preview_loading = TRUE,
                        !.preview_data = None, !.preview_scroll = 0,
                        !.preview_pr_info = Some(Unwrap(pr_data).number)],
              Some(StartPreviewFetch(Unwrap(pr_data).number)))
       ELSE R(a, None)

close_preview_view(a) ==
    [a EXCEPT !.show_preview_view = FALSE, !.preview_data = None,
              !.preview_loading = FALSE, !.preview_scroll = 0,
              !.preview_section_index = 0, !.preview_comment_positions = <<>>,
              !.preview_total_lines = 0, !.preview_pr_info = None]

handle_preview_result(a, result) ==
    CASE result.kind = "PreviewSuccess" ->
           LET pos == calculate_preview_positions(result.data.comments)
           IN [a EXCEPT !.preview_comment_positions = pos.positions,
                        !.preview_total_lines = pos.total,
                        !.preview_data = Some(result.data),
                        !.preview_loading = FALSE]
      [] result.kind = "PreviewError" ->
           [a EXCEPT !.preview_loading = FALSE,
                     !.error = Some(result.e), !.show_error_popup = TRUE]
      [] OTHER -> a

\* The PreviewScrollUp arm of update().
preview_scroll_up(a) ==
    IF a.preview_scroll > 0
    THEN [a EXCEPT !.preview_scroll = saturating_sub(@, 3)]
    ELSE a

\* A plausible bug: the new offset is not clamped.
preview_scroll_down_NoClamp(a) == [a EXCEPT !.preview_scroll = @ + 3]

\* The PreviewScrollDown arm of update(): three lines down, clamped to the
\* total less five.  (saturating_add meets no offset of the model near u16::MAX.)
preview_scroll_down(a) ==
    LET max_scroll == saturating_sub(a.preview_total_lines, 5)
        new_scroll == a.preview_scroll + 3
    IN [a EXCEPT !.preview_scroll = IF new_scroll < max_scroll THEN new_scroll
                                     ELSE max_scroll]

preview_next_section(a) ==
    LET num_comments == Len(a.preview_comment_positions)
    IN IF num_comments > 0 /\ a.preview_section_index < num_comments - 1
       THEN [a EXCEPT !.preview_section_index = @ + 1,
                      !.preview_scroll =
                          a.preview_comment_positions[a.preview_section_index + 2]]
       ELSE a

preview_previous_section(a) ==
    IF a.preview_section_index > 0
    THEN [a EXCEPT !.preview_section_index = @ - 1,
                   !.preview_scroll =
                       IF a.preview_section_index - 1 < Len(a.preview_comment_positions)
                       THEN a.preview_comment_positions[a.preview_section_index]
                       ELSE @]
    ELSE a

\* The PreviewGoToBottom arm of update(): visible_height is 20.
preview_go_to_bottom(a) ==
    LET a1 == [a EXCEPT !.preview_scroll =
                            IF a.preview_total_lines > 20
                            THEN saturating_sub(a.preview_total_lines, 20) ELSE 0]
    IN IF IsSome(a.preview_data) /\ Unwrap(a.preview_data).comments # <<>>
       THEN [a1 EXCEPT !.preview_section_index = Len(Unwrap(a.preview_data).comments) - 1]
       ELSE a1

\* ------------------------------------------------------------------ update

\* update(app, msg), for the messages of the list, the search, the help and
\* error popups, the three views and the fetch results.  env is the process
\* environment the handlers read.
update(a, msg, env) ==
    CASE msg.kind = "NextItem" -> R(next_item(a), None)
      [] msg.kind = "PreviousItem" -> R(previous_item(a), None)
      [] msg.kind = "GoToTop" -> R(SelectFirst(a), None)
      [] msg.kind = "GoToBottom" ->
           R(IF a.filtered_indices # <<>>
             THEN [a EXCEPT !.table_state = Some(Len(a.filtered_indices) - 1)]
             ELSE a, None)
      [] msg.kind = "SwitchTab" -> R(switch_filter(a, msg.filter), None)
      [] msg.kind = "OpenSelected" -> R(open_selected(a, msg.container), None)
      [] msg.kind = "DismissUrlPopup" -> R([a EXCEPT !.show_url_popup = None], None)
      [] msg.kind = "PromptCheckout" -> R(prompt_checkout(a), None)
      [] msg.kind = "ConfirmCheckout" ->
           LET c == confirm_checkout(a, msg.checkout)
           IN R(c.app, IF c.ok THEN Some(ExitAfterCheckout) ELSE None)
      [] msg.kind = "CancelCheckout" ->
           R([a EXCEPT !.show_checkout_popup = FALSE, !.pending_checkout_branch = None],
             None)
      [] msg.kind = "Refresh" ->
           IF a.pr_filter.kind = "Labels"
           THEN R(a, Some(StartFetch(FilterLabels(get_active_labels(a)))))
           ELSE R(a, Some(StartFetch(a.pr_filter)))
      [] msg.kind = "EnterSearchMode" -> R([a EXCEPT !.search_mode = TRUE], None)
      [] msg.kind = "ExitSearchMode" -> R(exit_search_mode(a, msg.clear), None)
      [] msg.kind = "SearchInput" -> R(search_push_char(a, msg.c), None)
      [] msg.kind = "SearchBackspace" -> R(search_pop_char(a), None)
      [] msg.kind = "ToggleHelp" -> R([a EXCEPT !.show_help_popup = ~@], None)
      [] msg.kind = "DismissHelp" -> R([a EXCEPT !.show_help_popup = FALSE], None)
      [] msg.kind = "DismissError" -> R([a EXCEPT !.show_error_popup = FALSE], None)
      [] msg.kind = "OpenWorkflowsView" -> open_workflows_view(a)
      [] msg.kind = "CloseWorkflowsView" -> R(close_workflows_view(a), None)
      [] msg.kind = "ActionsDataReceived" -> R(handle_actions_result(a, msg.result), None)
      [] msg.kind = "RefreshActions" -> refresh_actions(a)
      [] msg.kind = "ActionsNextJob" -> R(actions_next_job(a), None)
      [] msg.kind = "ActionsPreviousJob" -> R(actions_previous_job(a), None)
      [] msg.kind = "OpenJobLogs" -> open_job_logs(a, env)
      [] msg.kind = "CloseJobLogs" -> R(close_job_logs(a), None)
      [] msg.kind = "JobLogsReceived" -> R(handle_job_logs_result(a, msg.result), None)
      [] msg.kind = "JobLogsNextStep" -> R(job_logs_next_step(a), None)
      [] msg.kind = "JobLogsPrevStep" -> R(job_logs_prev_step(a), None)
      [] msg.kind = "JobLogsToggleStep" -> R(job_logs_toggle_step(a), None)
      [] msg.kind = "OpenPreviewView" -> open_preview_view(a)
      [] msg.kind = "ClosePreviewView" -> R(close_preview_view(a), None)
      [] msg.kind = "PreviewDataReceived" -> R(handle_preview_result(a, msg.result), None)
      [] msg.kind = "PreviewScrollUp" -> R(preview_scroll_up(a), None)
      [] msg.kind = "PreviewScrollDown" -> R(preview_scroll_down(a), None)
      [] msg.kind = "PreviewNextSection" -> R(preview_next_section(a), None)
      [] msg.kind = "PreviewPreviousSection" -> R(preview_previous_section(a), None)
      [] msg.kind = "PreviewGoToTop" ->
           R([a EXCEPT !.preview_scroll = 0, !.preview_section_index = 0], None)
      [] msg.kind = "PreviewGoToBottom" -> R(preview_go_to_bottom(a), None)
      [] msg.kind = "FetchComplete" -> handle_fetch_result(a, msg.result)
      [] msg.kind = "Tick" -> R(a, None)
      [] msg.kind = "Quit" -> R(a, Some(Quit))

\* ------------------------------------------------------------------ key_to_message

\* A plausible bug: the open views do not take the keys, the list answers them.
key_to_message_NoViews(a) ==
    IF a.show_help_popup THEN {"DismissHelp"}
    ELSE IF a.show_error_popup THEN {"DismissError"}
    ELSE IF a.show_workflows_view /\ a.show_job_logs THEN {"CloseJobLogs"}
    ELSE {"CloseWorkflowsView", "ClosePreviewView", "OpenJobLogs", "OpenPreviewView",
          "OpenWorkflowsView", "NextItem"}

\* The kinds of message key_to_message can answer in a state, over all keys.
\* A plausible bug: the workflows view also answers the preview key of the
\* main list.
key_to_message_PreviewKey(a) ==
    IF a.show_help_popup THEN {"DismissHelp"}
    ELSE IF a.show_checkout_popup THEN {"ConfirmCheckout", "CancelCheckout"}
    ELSE IF a.show_error_popup THEN {"DismissError"}
    ELSE IF IsSome(a.show_url_popup) THEN {"DismissUrlPopup"}
    ELSE IF a.show_workflows_view /\ a.show_job_logs THEN {"CloseJobLogs"}
    ELSE IF a.show_workflows_view
         THEN {"CloseWorkflowsView", "ActionsNextJob", "ActionsPreviousJob",
               "RefreshActions", "OpenJobLogs", "OpenPreviewView"}
    ELSE IF a.show_preview_view THEN {"ClosePreviewView"}
    ELSE {"NextItem", "OpenPreviewView", "OpenWorkflowsView"}

key_to_message(a) ==
    IF a.show_help_popup THEN {"DismissHelp"}
    ELSE IF a.show_checkout_popup THEN {"ConfirmCheckout", "CancelCheckout"}
    ELSE IF a.show_error_popup THEN {"DismissError"}
    ELSE IF IsSome(a.show_url_popup) THEN {"DismissUrlPopup"}
    ELSE IF a.show_workflows_view /\ a.show_job_logs
         THEN IF a.annotations_view /\ a.annotations # <<>>
              THEN {"CloseJobLogs", "AnnotationNext", "AnnotationPrevious",
                    "ToggleAnnotationSelection", "CopyAnnotations", "OpenActionsInBrowser"}
              ELSE IF /\ IsSome(a.job_logs)
                      /\ IsSome(Unwrap(a.job_logs).steps)
                      /\ Unwrap(Unwrap(a.job_logs).steps) # <<>>
                   THEN {"CloseJobLogs", "JobLogsNextStep", "JobLogsPrevStep",
                         "JobLogsToggleStep", "OpenStepInEditor", "CopyTestFailures",
                         "FullCopyStepOutput", "OpenActionsInBrowser"}
                   ELSE {"CloseJobLogs", "JobLogsScrollDown", "JobLogsScrollUp",
                         "CopyTestFailures", "FullCopyStepOutput", "OpenActionsInBrowser"}
    ELSE IF a.show_workflows_view
         THEN {"CloseWorkflowsView", "ActionsNextJob", "ActionsPreviousJob",
               "RefreshActions", "OpenActionsInBrowser", "OpenJobLogs"}
    ELSE IF a.show_preview_view
         THEN {"PreviewScrollDown", "PreviewScrollUp", "ClosePreviewView",
               "PreviewGoToTop", "PreviewGoToBottom", "OpenSelected"}
    ELSE IF a.show_add_label_popup
         THEN {"CloseAddLabelPopup", "AddLabel", "LabelBackspace", "ToggleLabelScope",
               "LabelInput"}
    ELSE IF a.show_labels_popup
         THEN {"CloseLabelsPopup", "OpenAddLabelPopup", "DeleteSelectedLabel",
               "LabelsNext", "LabelsPrevious"}
    ELSE IF a.search_mode
         THEN {"ExitSearchMode", "SearchBackspace", "SearchInput", "NextItem", "PreviousItem"}
    ELSE {"Quit", "EnterSearchMode", "NextItem", "PreviousItem", "OpenSelected",
          "OpenPreviewView", "PromptCheckout", "Refresh", "ToggleHelp", "OpenLabelsPopup",
          "OpenWorkflowsView", "SwitchTab", "GoToTop", "GoToBottom"}
         \cup (IF a.search_query # <<>> THEN {"ExitSearchMode"} ELSE {})

\* Some key makes key_to_message answer msg in state a.
KeyAllows(a, msg) ==
    /\ msg.kind \in key_to_message(a)
    /\ (msg.kind = "SwitchTab" /\ msg.filter.kind = "Labels")
           => msg.filter.labels = get_active_labels(a)
    /\ (msg.kind = "ExitSearchMode" /\ ~a.search_mode) => msg.clear

\* ------------------------------------------------------------------ fetch pipelines

\* The request/result channel pairs of App::new, and the CircleCI job-log pair
\* that run_app polls and handle_command feeds.
Pipelines == {"prs", "actions", "job_logs", "circleci", "preview"}

\* The pipeline a command is sent to (handle_command).
PipeOf(cmd) ==
    CASE cmd.kind = "StartFetch" -> "prs"
      [] cmd.kind = "StartActionsFetch" -> "actions"
      [] cmd.kind = "StartJobLogsFetch" -> "job_logs"
      [] cmd.kind = "StartCircleCIJobLogsFetch" -> "circleci"
      [] cmd.kind = "StartPreviewFetch" -> "preview"

\* The message run_app wraps a pipeline's result in.
WrapOf(p, result) ==
    CASE p = "prs" -> FetchComplete(result)
      [] p = "actions" -> ActionsDataReceived(result)
      [] p = "job_logs" -> JobLogsReceived(result)
      [] p = "circleci" -> JobLogsReceived(result)
      [] p = "preview" -> PreviewDataReceived(result)

start_fetch(a, filter) ==
    LET a1 == CASE filter.kind = "MyPrs" -> [a EXCEPT !.loading_my_prs = TRUE]
                [] filter.kind = "ReviewRequested" -> [a EXCEPT !.loading_review_prs = TRUE]
                [] OTHER -> [a EXCEPT !.loading_labels_prs = TRUE]
    IN [a1 EXCEPT !.error = None, !.show_error_popup = FALSE, !.main_refresh_elapsed = FALSE]

start_actions_fetch(a) == [a EXCEPT !.actions_loading = TRUE, !.actions_poll_elapsed = FALSE]

start_job_logs_fetch(a) ==
    [a EXCEPT !.job_logs_loading = TRUE, !.job_logs = None, !.job_logs_scroll = 0]

start_circleci_logs_fetch(a) ==
    [a EXCEPT !.job_logs_loading = TRUE, !.job_logs = None, !.job_logs_scroll = 0]

start_preview_fetch(a) ==
    [a EXCEPT !.preview_loading = TRUE, !.preview_data = None, !.preview_scroll = 0]

\* The App after handle_command has run a fetch command.
handle_command(a, cmd) ==
    CASE cmd.kind = "StartFetch" -> start_fetch(a, cmd.filter)
      [] cmd.kind = "StartActionsFetch" -> start_actions_fetch(a)
      [] cmd.kind = "StartJobLogsFetch" -> start_job_logs_fetch(a)
      [] cmd.kind = "StartCircleCIJobLogsFetch" -> start_circleci_logs_fetch(a)
      [] cmd.kind = "StartPreviewFetch" -> start_preview_fetch(a)
      [] OTHER -> a

\* ------------------------------------------------------------------ CircleCI step reconstruction

\* V1Action, of the fields the reconstruction reads; no action of the model
\* has an output_url.
V1Action(status, exit_code) == [status |-> status, exit_code |-> exit_code]
V1Step(name, actions) == [name |-> name, actions |-> actions]

JobStep(name, status, output, is_failed, sub_steps) ==
    [name |-> name, status |-> status, output |-> output, is_failed |-> is_failed,
     sub_steps |-> sub_steps]

\* str::to_lowercase on the statuses of the model.
StatusLower(s) ==
    CASE s = "Failed" -> "failed"
      [] s = "TIMEDOUT" -> "timedout"
      [] OTHER -> s

\* action_failed / is_failed: a failed or timed out status, or a non-zero exit code.
ActionFailed(action) ==
    LET status == IF IsSome(action.status) THEN Unwrap(action.status) ELSE "unknown"
    IN \/ StatusLower(status) \in {"failed", "timedout"}
       \/ IsSome(action.exit_code) /\ Unwrap(action.exit_code) # 0

\* The output of an action without output_url, before the empty-output default.
ExitCodeOutput(action) ==
    IF IsSome(action.exit_code) /\ (Unwrap(action.exit_code) # 0 \/ ActionFailed(action))
    THEN <<"Exit code: ", Unwrap(action.exit_code)>>
    ELSE <<>>

\* One sub-step of a container: the step's action of that container, or a
\* skipped entry where the step has none.
ContainerSubStep(step, container_idx) ==
    IF container_idx < Len(step.actions)
    THEN LET action == step.actions[container_idx + 1]
             output == ExitCodeOutput(action)
         IN JobStep(step.name,
                    IF IsSome(action.status) THEN Unwrap(action.status) ELSE "unknown",
                    IF output = <<>> THEN <<"(No output)">> ELSE output,
                    ActionFailed(action), None)
    ELSE JobStep(step.name, "skipped", <<"(No data for this container)">>, FALSE, None)

\* A plausible bug: a container is failed only if its first sub-step is.
ContainerFirstOnly(steps, container_idx) ==
    LET subs == [i \in 1..Len(steps) |-> ContainerSubStep(steps[i], container_idx)]
        container_failed == subs[1].is_failed
    IN JobStep(<<"Container ", container_idx>>,
               IF container_failed THEN "failed" ELSE "success",
               <<>>, container_failed, Some(subs))

\* One container of a parallel job.
Container(steps, container_idx) ==
    LET subs == [i \in 1..Len(steps) |-> ContainerSubStep(steps[i], container_idx)]
        container_failed == \E i \in 1..Len(subs) : subs[i].is_failed
    IN JobStep(<<"Container ", container_idx>>,
               IF container_failed THEN "failed" ELSE "success",
               <<>>, container_failed, Some(subs))

\* One step of a job that is not parallel: its first action decides.
FlatStep(step) ==
    LET action == IF step.actions = <<>> THEN None ELSE Some(step.actions[1])
        step_status == IF IsSome(action) /\ IsSome(Unwrap(action).status)
                       THEN Unwrap(Unwrap(action).status) ELSE "unknown"
        exit_code == IF IsSome(action) THEN Unwrap(action).exit_code ELSE None
        is_failed == \/ StatusLower(step_status) \in {"failed", "timedout"}
                     \/ IsSome(exit_code) /\ Unwrap(exit_code) # 0
        output == IF IsSome(action) THEN ExitCodeOutput(Unwrap(action)) ELSE <<>>
    IN JobStep(step.name, step_status,
               IF output # <<>> THEN output
               ELSE IF is_failed THEN <<"Step failed with status: ", step_status>>
               ELSE <<"(No output)">>,
               is_failed, None)

\* fetch_circleci_job_logs on the job details the v1.1 API answered:
\* details is V1JobDetails.steps, an Option.
fetch_circleci_job_logs(job_number, details) ==
    LET steps == IF IsSome(details) THEN Unwrap(details) ELSE <<>>
        num_containers == IF steps = <<>> THEN 1 ELSE Len(steps[1].actions)
        is_parallel == num_containers > 1
        structured_steps ==
            IF is_parallel
            THEN [c \in 1..num_containers |-> Container(steps, c - 1)]
            ELSE [i \in 1..Len(steps) |-> FlatStep(steps[i])]
        failed_count == Cardinality({i \in 1..Len(structured_steps) :
                                        structured_steps[i].is_failed})
    IN JobLogs(job_number,
               IF structured_steps = <<>>
               THEN <<"No step information available.">>
               ELSE <<Len(structured_steps), " steps (",
                      Len(structured_steps) - failed_count, " passed, ",
                      failed_count, " failed)">>,
               IF structured_steps = <<>> THEN None ELSE Some(structured_steps))

\* The job details of the model: up to MaxSteps steps, each with the
\* actions of none, one, two or three containers, an action failed by its
\* status or by its exit code.
MaxSteps == 2
ActionOk == V1Action(Some("success"), Some(0))
ActionFailedStatus == V1Action(Some("Failed"), None)
ActionExitCode == V1Action(None, Some(1))
StepActions ==
    {<<>>, <<ActionOk>>, <<ActionFailedStatus>>, <<ActionOk, ActionOk>>,
     <<ActionOk, ActionExitCode>>, <<ActionFailedStatus, ActionOk>>,
     <<ActionOk, ActionOk, ActionExitCode>>}
JobDetails ==
    {None} \cup {Some(steps) : steps \in UNION {[1..n -> {V1Step("run", as) : as \in StepActions}] :
                                                    n \in 0..MaxSteps}}

\* What the collaborator of a pipeline can answer to a request.
Answers(p, req) ==
    CASE p = "prs" ->
           {Success(l, req.filter) : l \in FetchLists(req.filter)} \cup {Error(<<"fetch failed">>)}
      [] p = "actions" ->
           {ActionsSuccess(ActionsData(req.pr_number, runs, None)) : runs \in RunLists}
               \cup {ActionsError(<<"actions failed">>)}
      [] p = "job_logs" ->
           {JobLogsSuccess(JobLogs(req.job_id, "log", None)), JobLogsError(<<"gh failed">>)}
      [] p = "circleci" ->
           {JobLogsSuccess(JobLogs(req.job_number, "log", None)),
            JobLogsError(<<"circleci failed">>)}
      [] p = "preview" ->
           {PreviewSuccess(PreviewData(req.pr_number, <<2, 1>>))}
               \cup {PreviewError(<<"preview failed">>)}

\* ------------------------------------------------------------------ the state machine

VARIABLES
    app,        \* the App
    env,        \* the process environment: [circleci_token]
    running,    \* run_app has not returned
    lastMsg,    \* the kind of the message of the latest update() call
    lastCmd,    \* what that call returned
    host_only,  \* every user message so far is one key_to_message answers
    reqQ,       \* per pipeline: the requests sent and not yet received by the worker
    busy,       \* per pipeline: the request the worker is servicing, an Option
    resQ,       \* per pipeline: the requests whose result is sent and not yet received
    submitted,  \* per pipeline: the number of requests sent so far
    delivered,  \* per pipeline: the number of results run_app has applied so far
    keys,       \* the number of key presses so far
    db,         \* the cache database file
    dbLast,     \* the latest call of a cache.rs function, and the thread that made it
    circle,     \* the job details and the JobLogs of the latest CircleCI reconstruction
    opened      \* the job the open job-logs view was opened for, an Option

vars == <<app, env, running, lastMsg, lastCmd, host_only, reqQ, busy, resQ,
          submitted, delivered, keys, db, dbLast, circle, opened>>
pipes == <<reqQ, busy, resQ, submitted, delivered>>
host == <<app, env, running, lastMsg, lastCmd, host_only, pipes, keys, circle, opened>>
cache == <<db, dbLast>>

\* A call of a cache.rs function: its name, its thread, its arguments (those
\* it does not take are empty), the Vec it returned, the version row and the
\* number of data rows it found, and the number of calls so far.
StoreCall(op, thread, owner, repo, filter, prs, label, d, n) ==
    [op |-> op, thread |-> thread, owner |-> owner, repo |-> repo,
     filter |-> filter, prs |-> prs, label |-> label, found |-> d.version,
     rows_found |-> Len(d.pull_requests) + Len(d.label_filters), n |-> n]

\* main(): App::new over the cached lists, then the two initial fetches, in
\* an environment whose CIRCLECI_TOKEN is set or not as tokens allows.
InitEnv(tokens) ==
    /\ \E my \in CacheLists :
           /\ app = start_fetch(start_fetch(AppNew(my, <<>>, <<>>), FilterMyPrs),
                                FilterReviewRequested)
           /\ db = CachedStore
           /\ dbLast = StoreCall("load_cache", "main", "o", "r",
                                 PrFilter_to_str(FilterLabels(<<>>)), <<>>, None, db, 0)
    /\ env \in [circleci_token : tokens]
    /\ running = TRUE
    /\ lastMsg = Msg("Init")
    /\ lastCmd = None
    /\ host_only = TRUE
    /\ reqQ = [p \in Pipelines |->
                 IF p = "prs"
                 THEN <<[seq |-> 1, req |-> StartFetch(FilterMyPrs)],
                        [seq |-> 2, req |-> StartFetch(FilterReviewRequested)]>>
                 ELSE <<>>]
    /\ busy = [p \in Pipelines |-> None]
    /\ resQ = [p \in Pipelines |-> <<>>]
    /\ submitted = [p \in Pipelines |-> IF p = "prs" THEN 2 ELSE 0]
    /\ delivered = [p \in Pipelines |-> 0]
    /\ keys = 0
    /\ circle = None
    /\ opened = None

Init == InitEnv(BOOLEAN)

\* The start of the specifications in which no message reads the token.
InitNoToken == InitEnv({FALSE})

\* The requests sent so far, over all pipelines.
RECURSIVE SumOver(_, _)
SumOver(f, S) == IF S = {} THEN 0 ELSE LET x == CHOOSE x \in S : TRUE
                                       IN f[x] + SumOver(f, S \ {x})
Submitted == SumOver(submitted, Pipelines)

\* One update() call of run_app and the handle_command call on its result.
Step(msg) ==
    /\ running
    /\ LET r == update(app, msg, env)
       IN /\ lastMsg' = msg
          /\ lastCmd' = r.cmd
          /\ opened' = IF ~r.app.show_job_logs THEN None
                        ELSE IF msg.kind = "OpenJobLogs" /\ IsSome(get_selected_job(app))
                             THEN get_selected_job(app)
                             ELSE opened
          /\ IF IsNone(r.cmd)
             THEN app' = r.app /\ UNCHANGED <<running, reqQ, submitted>>
             ELSE IF Unwrap(r.cmd).kind \in {"Quit", "ExitAfterCheckout"}
                  THEN app' = r.app /\ running' = FALSE /\ UNCHANGED <<reqQ, submitted>>
                  ELSE LET cmd == Unwrap(r.cmd)
                           p == PipeOf(cmd)
                       IN /\ Submitted < MaxReq
                          /\ app' = handle_command(r.app, cmd)
                          /\ submitted' = [submitted EXCEPT ![p] = @ + 1]
                          /\ reqQ' = [reqQ EXCEPT
                                         ![p] = Append(@, [seq |-> submitted[p] + 1,
                                                           req |-> cmd])]
                          /\ UNCHANGED running
    /\ UNCHANGED <<env, cache>>

\* The user messages of the model, by kind.
TabFilters == {FilterMyPrs, FilterReviewRequested, FilterLabels(<<"bug">>)}
SearchChars == {"y"}
MsgsOf(kind) ==
    CASE kind = "SwitchTab" -> {SwitchTab(f) : f \in TabFilters}
      [] kind = "SearchInput" -> {SearchInput(c) : c \in SearchChars}
      [] kind = "ExitSearchMode" -> {ExitSearchMode(b) : b \in BOOLEAN}
      [] kind = "ConfirmCheckout" -> {ConfirmCheckout(c) : c \in CheckoutResults}
      [] kind = "OpenSelected" -> {OpenSelected(c) : c \in BOOLEAN}
      [] OTHER -> {Msg(kind)}

\* The kinds a user working in the PR list sends, and those of a user working
\* in the workflows, job-logs and preview views.
ListKinds ==
    {"NextItem", "PreviousItem", "GoToTop", "GoToBottom", "SwitchTab", "Refresh",
     "EnterSearchMode", "ExitSearchMode", "SearchInput", "SearchBackspace",
     "DismissError"}
ViewKinds ==
    {"NextItem", "OpenWorkflowsView", "CloseWorkflowsView", "RefreshActions",
     "ActionsNextJob", "ActionsPreviousJob", "OpenJobLogs", "CloseJobLogs",
     "OpenPreviewView", "ClosePreviewView", "DismissError"}
OpenCloseKinds ==
    {"OpenWorkflowsView", "CloseWorkflowsView", "OpenPreviewView", "ClosePreviewView"}

\* update() is called with a user message, whether or not a key produces it
\* in this state.
UserMessage(msg, max) ==
    /\ keys < max
    /\ keys' = keys + 1
    /\ Len(app.search_query) < MaxQuery \/ msg.kind # "SearchInput"
    /\ host_only' = (host_only /\ KeyAllows(app, msg))
    /\ Step(msg)
    /\ UNCHANGED <<busy, resQ, delivered, circle>>

\* A key press: key_to_message answers msg, update() applies it.
Key(msg, max) ==
    /\ KeyAllows(app, msg)
    /\ UserMessage(msg, max)

UserInput(kinds, max) == \E k \in kinds : \E msg \in MsgsOf(k) : Key(msg, max)

AnyMessage(kinds, max) == \E k \in kinds : \E msg \in MsgsOf(k) : UserMessage(msg, max)

\* run_app takes one result from a result channel and applies it.  What the
\* collaborator answered does not depend on the App, and the model draws it
\* here, where it is first read.
Deliver(p) ==
    /\ resQ[p] # <<>>
    /\ \E res \in Answers(p, Head(resQ[p]).req) : Step(WrapOf(p, res))
    /\ resQ' = [resQ EXCEPT ![p] = Tail(@)]
    /\ delivered' = [delivered EXCEPT ![p] = @ + 1]
    /\ UNCHANGED <<busy, host_only, keys, circle>>

\* run_app takes a result of the CircleCI worker: JobLogs that
\* fetch_circleci_job_logs built from the job details the API answered.
DeliverCircleCI ==
    /\ resQ["circleci"] # <<>>
    /\ \E details \in JobDetails :
           LET logs == fetch_circleci_job_logs(Head(resQ["circleci"]).req.job_number,
                                               details)
           IN /\ Step(WrapOf("circleci", JobLogsSuccess(logs)))
              /\ circle' = Some([details |-> details, logs |-> logs])
    /\ resQ' = [resQ EXCEPT !["circleci"] = Tail(@)]
    /\ delivered' = [delivered EXCEPT !["circleci"] = @ + 1]
    /\ UNCHANGED <<busy, host_only, keys>>

\* run_app's scheduled CI poll.
PollActions ==
    /\ should_poll_actions(app)
    /\ Step(Msg("RefreshActions"))
    /\ UNCHANGED <<busy, resQ, delivered, host_only, keys, circle>>

\* run_app's scheduled refresh of the main list.
AutoRefresh ==
    /\ should_refresh_main(app)
    /\ Step(Msg("Refresh"))
    /\ UNCHANGED <<busy, resQ, delivered, host_only, keys, circle>>

\* 30 s have passed since the last CI request.  The flag is read by
\* should_poll_actions alone, so it is raised only where its other conditions hold.
PollTimer ==
    /\ running
    /\ ~app.actions_poll_elapsed
    /\ should_poll_actions([app EXCEPT !.actions_poll_elapsed = TRUE])
    /\ app' = [app EXCEPT !.actions_poll_elapsed = TRUE]
    /\ UNCHANGED <<env, running, lastMsg, lastCmd, host_only, pipes, keys, cache, circle, opened>>

\* 30 s have passed since the last PR-list request; read by should_refresh_main alone.
RefreshTimer ==
    /\ running
    /\ ~app.main_refresh_elapsed
    /\ should_refresh_main([app EXCEPT !.main_refresh_elapsed = TRUE])
    /\ app' = [app EXCEPT !.main_refresh_elapsed = TRUE]
    /\ UNCHANGED <<env, running, lastMsg, lastCmd, host_only, pipes, keys, cache, circle, opened>>

\* A plausible bug: the worker takes the newest request of its channel first.
WorkerRecvNewest(p) ==
    /\ running
    /\ IsNone(busy[p])
    /\ reqQ[p] # <<>>
    /\ busy' = [busy EXCEPT ![p] = Some(reqQ[p][Len(reqQ[p])])]
    /\ reqQ' = [reqQ EXCEPT ![p] = SubSeq(@, 1, Len(@) - 1)]
    /\ UNCHANGED <<app, env, running, lastMsg, lastCmd, host_only, resQ, submitted,
                   delivered, keys, cache, circle, opened>>

\* A worker thread receives the next request of its channel.
WorkerRecv(p) ==
    /\ running
    /\ IsNone(busy[p])
    /\ reqQ[p] # <<>>
    /\ busy' = [busy EXCEPT ![p] = Some(Head(reqQ[p]))]
    /\ reqQ' = [reqQ EXCEPT ![p] = Tail(@)]
    /\ UNCHANGED <<app, env, running, lastMsg, lastCmd, host_only, resQ, submitted,
                   delivered, keys, cache, circle, opened>>

\* A plausible bug: a request is dropped when a newer one waits behind it.
WorkerSendUnlessNewer(p) ==
    /\ running
    /\ IsSome(busy[p])
    /\ resQ' = [resQ EXCEPT ![p] = IF reqQ[p] # <<>> THEN @ ELSE Append(@, Unwrap(busy[p]))]
    /\ busy' = [busy EXCEPT ![p] = None]
    /\ UNCHANGED <<app, env, running, lastMsg, lastCmd, host_only, reqQ, submitted,
                   delivered, keys, cache, circle, opened>>

\* The worker's fetch returns and it sends the one result of the request.
WorkerSend(p) ==
    /\ running
    /\ IsSome(busy[p])
    /\ resQ' = [resQ EXCEPT ![p] = Append(@, Unwrap(busy[p]))]
    /\ busy' = [busy EXCEPT ![p] = None]
    /\ UNCHANGED <<app, env, running, lastMsg, lastCmd, host_only, reqQ, submitted,
                   delivered, keys, cache, circle, opened>>

\* The workers and the part of run_app that no key drives.
Workers ==
    \/ \E p \in Pipelines : WorkerRecv(p)
    \/ \E p \in Pipelines : WorkerSend(p)

\* The host loop with a user who works in the PR list.
NextList ==
    \/ UserInput(ListKinds, MaxListKeys)
    \/ \E p \in Pipelines : Deliver(p)
    \/ AutoRefresh
    \/ RefreshTimer
    \/ Workers

SpecList == InitNoToken /\ [][NextList]_vars

\* The host loop with a user who works in the views.
NextViews ==
    \/ UserInput(ViewKinds, MaxKeys)
    \/ \E p \in Pipelines : Deliver(p)
    \/ PollActions
    \/ PollTimer
    \/ Workers

SpecViews == Init /\ [][NextViews]_vars

\* update() driven by any message that opens or closes the workflows view or
\* the preview view, with the rest of the host loop.
NextUpdate ==
    \/ AnyMessage(OpenCloseKinds, MaxKeys)
    \/ \E p \in Pipelines : Deliver(p)
    \/ PollActions
    \/ PollTimer
    \/ Workers

SpecUpdate == InitNoToken /\ [][NextUpdate]_vars

\* The host loop with a user who opens and closes views, refreshes and quits,
\* under the scheduling the threads have: a worker blocked on its channel is
\* woken, its fetch returns, and run_app's loop comes round to each result queue.
FairKinds ==
    {"OpenWorkflowsView", "CloseWorkflowsView", "OpenPreviewView", "ClosePreviewView",
     "Refresh", "Quit"}

NextFair ==
    \/ UserInput(FairKinds, MaxKeys)
    \/ \E p \in Pipelines : Deliver(p)
    \/ Workers

SpecFair ==
    /\ InitNoToken
    /\ [][NextFair]_vars
    /\ \A p \in Pipelines :
           WF_vars(WorkerRecv(p)) /\ WF_vars(WorkerSend(p)) /\ WF_vars(Deliver(p))

\* run_app takes a result of the preview worker: a PR whose description and
\* comments render to the line counts of comments.
PreviewComments == {<<35, 8>>, <<1>>}
DeliverPreview ==
    /\ resQ["preview"] # <<>>
    /\ \E comments \in PreviewComments :
           Step(WrapOf("preview",
                       PreviewSuccess(PreviewData(Head(resQ["preview"]).req.pr_number,
                                                  comments))))
    /\ resQ' = [resQ EXCEPT !["preview"] = Tail(@)]
    /\ delivered' = [delivered EXCEPT !["preview"] = @ + 1]
    /\ UNCHANGED <<busy, host_only, keys, circle>>

\* update() driven by the messages of the preview view, with the rest of
\* the host loop.
PreviewKinds ==
    {"OpenPreviewView", "PreviewScrollDown", "PreviewScrollUp", "PreviewNextSection",
     "PreviewPreviousSection", "PreviewGoToBottom"}

NextPreview ==
    \/ AnyMessage(PreviewKinds, MaxKeys)
    \/ \E p \in Pipelines : Deliver(p)
    \/ DeliverPreview
    \/ Workers

SpecPreview == InitNoToken /\ [][NextPreview]_vars

\* The host loop with a user who opens the logs of CI jobs, CircleCI
\* answering with job details.
LogKinds == {"OpenWorkflowsView", "ActionsNextJob", "OpenJobLogs"}

NextLogs ==
    \/ UserInput(LogKinds, MaxKeys)
    \/ \E p \in Pipelines : Deliver(p)
    \/ DeliverCircleCI
    \/ Workers

SpecLogs == Init /\ [][NextLogs]_vars

\* update() driven by the messages of the checkout popup, whether or not a
\* key produces them, with the rest of the host loop.
CheckoutKinds ==
    {"NextItem", "PromptCheckout", "ConfirmCheckout", "CancelCheckout", "DismissError"}

NextCheckout ==
    \/ AnyMessage(CheckoutKinds, MaxKeys)
    \/ \E p \in Pipelines : Deliver(p)
    \/ Workers

SpecCheckout == InitNoToken /\ [][NextCheckout]_vars

\* The check runs of the job-log decision: one run of one completed job over
\* every combination of annotations, summary, text and details URL.
CheckJobs ==
    {WorkflowJob(20, "Completed", Some("Success"), url, summary, text, annotations) :
        url \in {None, Some(UrlJobs)},
        summary \in {None, Some(<<>>), Some(<<"reviewdog", "Findings (0)">>),
                     Some(<<"report">>)},
        text \in {None, Some(<<"details">>)},
        annotations \in {<<>>, <<"ann1">>}}

\* run_app takes a result of the CI worker: the check runs GitHub reports.
DeliverChecks ==
    /\ resQ["actions"] # <<>>
    /\ \E job \in CheckJobs :
           Step(WrapOf("actions",
                       ActionsSuccess(ActionsData(Head(resQ["actions"]).req.pr_number,
                                                  <<WorkflowRun("Completed", <<job>>)>>,
                                                  None))))
    /\ resQ' = [resQ EXCEPT !["actions"] = Tail(@)]
    /\ delivered' = [delivered EXCEPT !["actions"] = @ + 1]
    /\ UNCHANGED <<busy, host_only, keys, circle>>

\* The host loop with a user who opens the workflows view and the logs of
\* the selected job.
CheckKinds == {"OpenWorkflowsView", "OpenJobLogs", "CloseJobLogs"}

NextChecks ==
    \/ UserInput(CheckKinds, MaxKeys)
    \/ \E p \in Pipelines : Deliver(p)
    \/ DeliverChecks
    \/ Workers

SpecChecks == Init /\ [][NextChecks]_vars

\* The job details in which every step ran in every container: MaxSteps
\* steps, each with as many actions as the first.
CompleteDetails ==
    {d \in JobDetails :
        /\ IsSome(d)
        /\ Len(Unwrap(d)) = MaxSteps
        /\ \A i \in 1..Len(Unwrap(d)) :
               Len(Unwrap(d)[i].actions) = Len(Unwrap(d)[1].actions)}

\* run_app takes a result of the CircleCI worker for a job of CompleteDetails.
DeliverStepTree ==
    /\ resQ["circleci"] # <<>>
    /\ \E details \in CompleteDetails :
           LET logs == fetch_circleci_job_logs(Head(resQ["circleci"]).req.job_number,
                                               details)
           IN /\ Step(WrapOf("circleci", JobLogsSuccess(logs)))
              /\ circle' = Some([details |-> details, logs |-> logs])
    /\ resQ' = [resQ EXCEPT !["circleci"] = Tail(@)]
    /\ delivered' = [delivered EXCEPT !["circleci"] = @ + 1]
    /\ UNCHANGED <<busy, host_only, keys>>

\* The host loop with a user who opens the logs of a CircleCI job and walks
\* its step tree, in an environment whose CIRCLECI_TOKEN is set.
MaxStepKeys == 6
StepKinds ==
    {"OpenWorkflowsView", "OpenJobLogs", "JobLogsNextStep", "JobLogsPrevStep",
     "JobLogsToggleStep"}
InitToken == InitEnv({TRUE})

NextSteps ==
    \/ UserInput(StepKinds, MaxStepKeys)
    \/ \E p \in Pipelines : Deliver(p)
    \/ DeliverStepTree
    \/ Workers

SpecSteps == InitToken /\ [][NextSteps]_vars

\* Runs whose status and whose jobs' statuses are reported apart: a CircleCI
\* workflow that is failing (parse_circleci_status: Completed) while a job
\* still runs, a check suite still queued whose one check run is completed,
\* runs without jobs, and failures in a second run.
JobOk == WorkflowJob(31, "Completed", Some("Success"), None, None, None, <<>>)
JobFailed == WorkflowJob(32, "Completed", Some("Failure"), None, None, None, <<>>)
JobTimedOut == WorkflowJob(33, "Completed", Some("TimedOut"), None, None, None, <<>>)
JobStartupFailure ==
    WorkflowJob(34, "Completed", Some("StartupFailure"), None, None, None, <<>>)
JobInProgress == WorkflowJob(35, "InProgress", None, None, None, None, <<>>)
JobQueued == WorkflowJob(36, "Queued", None, None, None, None, <<>>)
StatusRuns ==
    {<<>>,
     <<WorkflowRun("Completed", <<JobOk>>)>>,
     <<WorkflowRun("InProgress", <<JobInProgress>>)>>,
     <<WorkflowRun("Completed", <<JobFailed, JobInProgress>>)>>,
     <<WorkflowRun("Queued", <<JobOk>>)>>,
     <<WorkflowRun("Completed", <<JobOk, JobOk>>),
       WorkflowRun("Completed", <<JobOk, JobTimedOut, JobFailed>>)>>,
     <<WorkflowRun("Completed", <<>>), WorkflowRun("Completed", <<JobStartupFailure>>)>>,
     <<WorkflowRun("Pending", <<JobQueued>>)>>}

\* run_app takes a result of the CI worker: the runs of StatusRuns.
DeliverRuns ==
    /\ resQ["actions"] # <<>>
    /\ \E runs \in StatusRuns :
           Step(WrapOf("actions",
                       ActionsSuccess(ActionsData(Head(resQ["actions"]).req.pr_number,
                                                  runs, None))))
    /\ resQ' = [resQ EXCEPT !["actions"] = Tail(@)]
    /\ delivered' = [delivered EXCEPT !["actions"] = @ + 1]
    /\ UNCHANGED <<busy, host_only, keys, circle>>

\* The host loop with a user who opens and closes the workflows view, and
\* the scheduler's CI poll.
RunKinds == {"OpenWorkflowsView", "CloseWorkflowsView", "ActionsNextJob"}

NextRuns ==
    \/ UserInput(RunKinds, MaxKeys)
    \/ \E p \in Pipelines : Deliver(p)
    \/ DeliverRuns
    \/ PollActions
    \/ PollTimer
    \/ Workers

SpecRuns == InitNoToken /\ [][NextRuns]_vars

\* The host loop with a user who opens and dismisses the popups and the
\* preview view and switches tabs, and the scheduler's main-list refresh.
IdleKinds ==
    {"OpenSelected", "DismissUrlPopup", "ToggleHelp", "PromptCheckout", "CancelCheckout",
     "OpenPreviewView", "ClosePreviewView", "SwitchTab", "DismissError"}

NextIdle ==
    \/ UserInput(IdleKinds, MaxListKeys)
    \/ \E p \in Pipelines : Deliver(p)
    \/ AutoRefresh
    \/ RefreshTimer
    \/ Workers

SpecIdle == InitNoToken /\ [][NextIdle]_vars

\* The host loop with a user who opens and closes the workflows view, with
\* the scheduler's refresh and poll, under the scheduling of SpecFair: the
\* timers run out and run_app's loop comes round to each of its checks.
PendingKinds == {"OpenWorkflowsView", "CloseWorkflowsView"}

NextPending ==
    \/ UserInput(PendingKinds, MaxKeys)
    \/ \E p \in Pipelines : Deliver(p)
    \/ PollActions
    \/ PollTimer
    \/ AutoRefresh
    \/ RefreshTimer
    \/ Workers

SpecPending ==
    /\ InitNoToken
    /\ [][NextPending]_vars
    /\ \A p \in Pipelines :
           WF_vars(WorkerRecv(p)) /\ WF_vars(WorkerSend(p)) /\ WF_vars(Deliver(p))
    /\ WF_vars(PollActions) /\ WF_vars(PollTimer)
    /\ WF_vars(AutoRefresh) /\ WF_vars(RefreshTimer)

\* What fetch_prs_graphql answers after PR 1 was merged, or after a PR was
\* opened that the search lists first.
ChangedLists == {<<Pr2>>, <<Pr2, Pr1>>}

\* run_app takes a result of the PR worker: a list of ChangedLists.
DeliverLists ==
    /\ resQ["prs"] # <<>>
    /\ \E prs \in ChangedLists :
           Step(WrapOf("prs", Success(prs, Head(resQ["prs"]).req.filter)))
    /\ resQ' = [resQ EXCEPT !["prs"] = Tail(@)]
    /\ delivered' = [delivered EXCEPT !["prs"] = @ + 1]
    /\ UNCHANGED <<busy, host_only, keys, circle>>

\* The host loop with a user who opens the workflows view and refreshes it
\* while PR-list results arrive, and the scheduler's CI poll.
RefreshKinds == {"NextItem", "OpenWorkflowsView", "CloseWorkflowsView", "RefreshActions"}

NextRefresh ==
    \/ UserInput(RefreshKinds, MaxKeys)
    \/ \E p \in Pipelines : Deliver(p)
    \/ DeliverLists
    \/ PollActions
    \/ PollTimer
    \/ Workers

SpecRefresh == InitNoToken /\ [][NextRefresh]_vars

\* The host loop with a user who opens the logs of one job after another,
\* with and without CIRCLECI_TOKEN, both job-log backends answering.
MaxLogKeys == 5
BackendKinds ==
    {"OpenWorkflowsView", "ActionsNextJob", "ActionsPreviousJob", "OpenJobLogs",
     "CloseJobLogs"}

NextBackends ==
    \/ UserInput(BackendKinds, MaxLogKeys)
    \/ \E p \in Pipelines : Deliver(p)
    \/ Workers

SpecBackends == Init /\ [][NextBackends]_vars

\* ------------------------------------------------------------------ the cache store's callers

\* Calls of cache.rs functions in one run of the model.
MaxStoreCalls == 3

\* The repositories ghui processes of the user run in; they share the one file.
Repos == {<<"o", "r">>, <<"o", "s">>}
InRepo(prs, repo) ==
    [i \in 1..Len(prs) |-> [prs[i] EXCEPT !.repo_owner = repo[1], !.repo_name = repo[2]]]

\* The thread App::new spawns for the PR list, from a request to its result,
\* for a fetch that succeeds with prs in the repository repo: owner and repo
\* are those of the first PR, or those of the current repository.
FetchWorker(repo, filter, prs) ==
    /\ dbLast.n < MaxStoreCalls
    /\ LET list == InRepo(prs, repo)
           owner == IF list # <<>> THEN list[1].repo_owner ELSE repo[1]
           name == IF list # <<>> THEN list[1].repo_name ELSE repo[2]
       IN /\ db' = save_cache(db, list, owner, name, filter)
          /\ dbLast' = StoreCall("save_cache", "worker", owner, name,
                                 PrFilter_to_str(filter), list, None, db, dbLast.n + 1)
    /\ UNCHANGED host

\* One of App::new's load_cache calls, in a process started in repo.
LoadCache(repo, filter) ==
    /\ dbLast.n < MaxStoreCalls
    /\ LET r == load_cache(db, repo[1], repo[2], filter)
       IN /\ db' = r.db
          /\ dbLast' = StoreCall("load_cache", "main", repo[1], repo[2],
                                 PrFilter_to_str(filter), r.prs, None, db, dbLast.n + 1)
    /\ UNCHANGED host

\* add_label's save_label_filter call: global, or scoped to the repository.
AddLabel(label_name, scope) ==
    /\ dbLast.n < MaxStoreCalls
    /\ LET owner == IF scope = None THEN None ELSE Some(Unwrap(scope)[1])
           repo == IF scope = None THEN None ELSE Some(Unwrap(scope)[2])
       IN /\ db' = save_label_filter(db, label_name, owner, repo)
          /\ dbLast' = StoreCall("save_label_filter", "main", owner, repo, "", <<>>,
                                 Some(label_name), db, dbLast.n + 1)
    /\ UNCHANGED host

\* delete_selected_label's delete_label_filter call.
DeleteLabel(id) ==
    /\ dbLast.n < MaxStoreCalls
    /\ db' = delete_label_filter(db, id)
    /\ dbLast' = StoreCall("delete_label_filter", "main", None, None, "", <<>>,
                           Some(id), db, dbLast.n + 1)
    /\ UNCHANGED host

\* A ghui build whose CACHE_VERSION is another one has used the file: its
\* init_db left its version, and it saved a list and a global label.
OtherBuild(prs) ==
    /\ dbLast.n < MaxStoreCalls
    /\ db.version # Some(CACHE_VERSION - 1)
    /\ db' = Store(TRUE, Some(CACHE_VERSION - 1),
                   [i \in 1..Len(prs) |-> PullRequestsRow(prs[i], FilterMyPrs)],
                   <<LabelFilter(1, "bug", None, None)>>, 2)
    /\ dbLast' = StoreCall("other_build", "main", None, None, "", <<>>, None, db,
                           dbLast.n + 1)
    /\ UNCHANGED host

\* The user removes the cache file.
FileRemoved ==
    /\ dbLast.n < MaxStoreCalls
    /\ db.exists
    /\ db' = NoStore
    /\ dbLast' = StoreCall("file_removed", "main", None, None, "", <<>>, None, db,
                           dbLast.n + 1)
    /\ UNCHANGED host

SaveLists == {<<>>, <<Pr1, Pr2>>, <<Pr2>>}
LabelNames == {"bug"}

\* The fetch thread's save_cache call when a statement may fail: fail names
\* the failing statement among the DELETE and the INSERTs of this call.
FetchWorkerIo(repo, filter, prs, fail) ==
    /\ dbLast.n < MaxStoreCalls
    /\ LET list == InRepo(prs, repo)
           owner == IF list # <<>> THEN list[1].repo_owner ELSE repo[1]
           name == IF list # <<>> THEN list[1].repo_name ELSE repo[2]
           r == save_cache_io(db, list, owner, name, filter, fail)
       IN /\ db' = r.db
          /\ dbLast' = StoreCall(IF r.ok THEN "save_cache" ELSE "save_cache_err", "worker",
                                 owner, name, PrFilter_to_str(filter), list, None, db,
                                 dbLast.n + 1)
    /\ UNCHANGED host

\* The outcomes of the conn.execute calls of one save_cache call.
ExecuteOutcomes(prs) == {None} \cup {Some(k) : k \in 0..Len(prs)}

NextSave ==
    \/ \E repo \in Repos, f \in TabFilters, prs \in SaveLists :
           \E fail \in ExecuteOutcomes(prs) : FetchWorkerIo(repo, f, prs, fail)
    \/ \E repo \in Repos, f \in TabFilters : LoadCache(repo, f)

SpecSave == InitNoToken /\ [][NextSave]_vars

NextCache ==
    \/ \E repo \in Repos, f \in TabFilters, prs \in SaveLists : FetchWorker(repo, f, prs)
    \/ \E repo \in Repos, f \in TabFilters : LoadCache(repo, f)
    \/ \E l \in LabelNames, scope \in {None} \cup {Some(r) : r \in Repos} : AddLabel(l, scope)
    \/ \E id \in 1..2 : DeleteLabel(id)
    \/ \E prs \in SaveLists : OtherBuild(prs)
    \/ FileRemoved

SpecCache == InitNoToken /\ [][NextCache]_vars

\* ------------------------------------------------------------------ properties

\* The step is an update() call on a user message.
UserStep(kind) == keys' = keys + 1 /\ lastMsg'.kind = kind

\* The step applies a result of pipeline p.
DeliveryOn(p) == delivered'[p] = delivered[p] + 1

\* An Option<Command> holds a command of a kind.
IsCmd(o, kind) == IsSome(o) /\ Unwrap(o).kind = kind

\* The latest update() call applied a successful PR-list result.
LastIsSuccess == lastMsg.kind = "FetchComplete" /\ lastMsg.result.kind = "Success"

Buckets(a) == {a.my_prs, a.review_prs, a.labels_prs}

\* C1 (as amended): in every state the host loop reaches, where user messages
\* are those key_to_message answers, the workflows view and the preview view
\* are never both active.
C1_HostLoopViewsExclusive ==
    host_only => ~(app.show_workflows_view /\ app.show_preview_view)

\* The preview view is open after the workflows view was opened and closed.
C1_Witness ==
    /\ host_only
    /\ app.show_preview_view
    /\ lastMsg.kind = "OpenPreviewView"
    /\ submitted["actions"] + submitted["prs"] >= 3

\* C1 as stated: over any sequence of messages applied through update(), the
\* two views are never both active.
C1_AnyMessagesViewsExclusive ==
    ~(app.show_workflows_view /\ app.show_preview_view)

\* C2: OpenWorkflowsView on a selected PR without head commit id records the PR
\* number as pending and returns StartFetch; the update step that applies a
\* successful PR-list result holding the pending PR with a head commit id
\* clears the pending number and returns StartActionsFetch for that PR.
C2_PendingResolvedByResult ==
    [][/\ (/\ UserStep("OpenWorkflowsView")
           /\ IsSome(selected_pr(app))
           /\ IsNone(Unwrap(selected_pr(app)).head_sha))
          => /\ app'.actions_pending_pr_number = Some(Unwrap(selected_pr(app)).number)
             /\ IsCmd(lastCmd', "StartFetch")
             /\ Unwrap(lastCmd').filter = app.pr_filter
       /\ (/\ DeliveryOn("prs")
           /\ lastMsg'.result.kind = "Success"
           /\ IsSome(app.actions_pending_pr_number)
           /\ LET pr == FindPr(lastMsg'.result.prs, Unwrap(app.actions_pending_pr_number))
              IN IsSome(pr) /\ IsSome(Unwrap(pr).head_sha))
          => /\ app'.actions_pending_pr_number = None
             /\ IsCmd(lastCmd', "StartActionsFetch")
             /\ Unwrap(lastCmd').pr_number = Unwrap(app.actions_pending_pr_number)
             /\ Some(Unwrap(lastCmd').head_sha) =
                    Unwrap(FindPr(lastMsg'.result.prs,
                                  Unwrap(app.actions_pending_pr_number))).head_sha
      ]_vars

\* A PR-list result has just resolved the pending PR of the open workflows view.
C2_Witness ==
    /\ LastIsSuccess
    /\ IsCmd(lastCmd, "StartActionsFetch")
    /\ app.show_workflows_view
    /\ IsNone(app.actions_pending_pr_number)
    /\ app.actions_loading

\* C3: a successful PR-list result for the displayed filter makes that
\* filter's bucket the result list, clears its loading flag, recomputes the
\* filtered indices from the new list and the current query, and selects row 0
\* when no row was selected and the filtered list is not empty.
C3_DisplayedResultReplaces ==
    [][(/\ DeliveryOn("prs")
        /\ lastMsg'.result.kind = "Success"
        /\ lastMsg'.result.filter.kind = app.pr_filter.kind)
       => /\ current_prs(app') = lastMsg'.result.prs
          /\ ~is_loading(app')
          /\ app'.search_query = app.search_query
          /\ app'.filtered_indices = filter_prs(lastMsg'.result.prs, app.search_query)
          /\ (IsNone(app.table_state) /\ app'.filtered_indices # <<>>)
                 => app'.table_state = Some(0)
          /\ IsSome(app.table_state) => app'.table_state = app.table_state
      ]_vars

\* Two PRs have arrived for the displayed filter under a query that one of
\* them matches.
C3_Witness ==
    /\ LastIsSuccess
    /\ lastMsg.result.filter.kind = app.pr_filter.kind
    /\ Len(current_prs(app)) = 2
    /\ app.search_query # <<>>
    /\ Len(app.filtered_indices) = 1
    /\ app.table_state = Some(0)

InFlight(p) == resQ[p] \o busy[p] \o reqQ[p]

\* C5: a worker services at most one request at a time, and the results of a
\* pipeline come in the order of its requests, one for each: the requests on
\* their way are, oldest first, exactly those submitted and not yet applied.
C5_ResultsInRequestOrder ==
    \A p \in Pipelines :
        /\ Len(busy[p]) <= 1
        /\ Len(InFlight(p)) = submitted[p] - delivered[p]
        /\ \A i \in 1..Len(InFlight(p)) : InFlight(p)[i].seq = delivered[p] + i

\* Three requests of the PR-list pipeline: one applied, one answered, one in service.
C5_Witness ==
    /\ delivered["prs"] >= 1
    /\ resQ["prs"] # <<>>
    /\ IsSome(busy["prs"])

\* Every request submitted so far has had its result applied.
AllApplied == \A p \in Pipelines : delivered[p] = submitted[p]

\* C6: while the application runs, every request submitted to a pipeline is
\* eventually serviced and its result applied by update(): whenever a request
\* is outstanding, a state follows in which none is, or the application has
\* stopped.
C6_EveryRequestApplied == (~AllApplied) ~> (AllApplied \/ ~running)

\* A CI result has been applied after its view was closed.
C6_Witness ==
    /\ running
    /\ lastMsg.kind = "ActionsDataReceived"
    /\ ~app.show_workflows_view
    /\ delivered["actions"] = submitted["actions"]

\* C7: a successful CI result for another PR than the one the workflows view
\* is open for does not change the selected job index.
C7_OtherPrResultKeepsSelection ==
    [][(/\ DeliveryOn("actions")
        /\ lastMsg'.result.kind = "ActionsSuccess"
        /\ app.show_workflows_view
        /\ IsSome(app.workflows_pr_info)
        /\ lastMsg'.result.data.pr_number # Unwrap(app.workflows_pr_info))
       => app'.selected_job_index = app.selected_job_index
      ]_vars

\* The view a pipeline's result is for is closed.
ViewClosedFor(p) ==
    CASE p = "actions" -> ~app.show_workflows_view
      [] p = "preview" -> ~app.show_preview_view
      [] OTHER -> ~app.show_job_logs

ViewFlags(a) ==
    <<a.show_workflows_view, a.show_job_logs, a.show_preview_view, a.show_error_popup,
      a.show_help_popup, a.show_checkout_popup, a.show_labels_popup,
      a.show_add_label_popup>>

\* C8: a CI, job-log or preview result applied while its view is closed
\* changes none of the view and popup flags.
C8_ResultForClosedViewKeepsFlags ==
    [][\A p \in Pipelines \ {"prs"} :
           (DeliveryOn(p) /\ ViewClosedFor(p)) => ViewFlags(app') = ViewFlags(app)
      ]_vars

\* The requests of the CI pipeline that are on their way.
ActionsRequests == {InFlight("actions")[i].req : i \in 1..Len(InFlight("actions"))}

\* A fetch of the PR list can report the PR with this head commit id.
Fetchable(number, sha) ==
    \E f \in TabFilters : \E l \in FetchLists(f) : \E i \in 1..Len(l) :
        l[i].number = number /\ l[i].head_sha = Some(sha)

\* C9: a StartActionsFetch names a PR and a head commit id that a bucket of
\* the state holds; before the first PR-list result no PR of the state has a
\* head commit id; every CI request carries a head commit id a PR-list fetch
\* delivered.
C9_ActionsFetchHasSha ==
    /\ IsCmd(lastCmd, "StartActionsFetch")
           => \E b \in Buckets(app) : \E i \in 1..Len(b) :
                  /\ b[i].number = Unwrap(lastCmd).pr_number
                  /\ b[i].head_sha = Some(Unwrap(lastCmd).head_sha)
    /\ delivered["prs"] = 0
           => /\ \A b \in Buckets(app) : \A i \in 1..Len(b) : IsNone(b[i].head_sha)
              /\ submitted["actions"] = 0
    /\ \A r \in ActionsRequests : Fetchable(r.pr_number, r.head_sha)

\* OpenWorkflowsView on a fetched PR has returned StartActionsFetch.
C9_Witness ==
    /\ lastMsg.kind = "OpenWorkflowsView"
    /\ IsCmd(lastCmd, "StartActionsFetch")
    /\ ActionsRequests # {}

\* OpenJobLogs reaches the real-fetch case for a job.
RealFetchCase(job) ==
    /\ job.annotations = <<>>
    /\ ~NonEmpty(job.summary)
    /\ ~NonEmpty(job.text)

IsCircleJob(job) == IsSome(job.details_url) /\ is_circleci_url(Unwrap(job.details_url))

HasJobNumber(job) == IsSome(extract_job_number_from_url(Unwrap(job.details_url)))

\* C10 (as amended): in the real-fetch case of OpenJobLogs, a CircleCI URL with
\* a token and an extractable job number gives the CircleCI job-log fetch; a
\* CircleCI URL without a token gives no command, loading false and the
\* instructions text; every other case gives the default-backend fetch.
C10_JobLogBackend ==
    [][(/\ UserStep("OpenJobLogs")
        /\ IsSome(get_selected_job(app))
        /\ RealFetchCase(Unwrap(get_selected_job(app))))
       => LET job == Unwrap(get_selected_job(app))
          IN IF IsCircleJob(job) /\ env.circleci_token /\ HasJobNumber(job)
             THEN /\ IsCmd(lastCmd', "StartCircleCIJobLogsFetch")
                  /\ Some(Unwrap(lastCmd').job_number) =
                         extract_job_number_from_url(Unwrap(job.details_url))
             ELSE IF IsCircleJob(job) /\ ~env.circleci_token
             THEN /\ IsNone(lastCmd')
                  /\ ~app'.job_logs_loading
                  /\ IsSome(app'.job_logs)
                  /\ Unwrap(app'.job_logs).content = "CircleCI Token Required"
             ELSE /\ IsCmd(lastCmd', "StartJobLogsFetch")
                  /\ Unwrap(lastCmd').job_id = job.id
      ]_vars

\* OpenJobLogs on a CircleCI job with a token has returned the CircleCI fetch.
C10_Witness ==
    /\ lastMsg.kind = "OpenJobLogs"
    /\ env.circleci_token
    /\ IsCmd(lastCmd, "StartCircleCIJobLogsFetch")
    /\ app.show_job_logs

\* C10 as stated: a CircleCI URL with a token always gives the CircleCI fetch.
C10_CircleWithTokenFetchesCircle ==
    [][(/\ UserStep("OpenJobLogs")
        /\ IsSome(get_selected_job(app))
        /\ RealFetchCase(Unwrap(get_selected_job(app)))
        /\ IsCircleJob(Unwrap(get_selected_job(app)))
        /\ env.circleci_token)
       => IsCmd(lastCmd', "StartCircleCIJobLogsFetch")
      ]_vars

\* The keys of the pull_requests cache: (owner, repo, filter column).
CacheKeys == {<<r[1], r[2], f>> : r \in Repos, f \in TabFilters}

\* A PR as the cache returns it: every persisted field, no head commit id.
Persisted(pr) == [pr EXCEPT !.head_sha = None]

\* The store call of the step from this state to the next is op.
StoreCallOf(op) == dbLast'.n = dbLast.n + 1 /\ dbLast'.op = op

C12_OneRowPerLabelTuple ==
    \A i, j \in 1..Len(db.label_filters) :
        (/\ db.label_filters[i].label_name = db.label_filters[j].label_name
         /\ db.label_filters[i].repo_owner = db.label_filters[j].repo_owner
         /\ db.label_filters[i].repo_name = db.label_filters[j].repo_name)
        => i = j

\* C12, the repo-scoped part: a save_label_filter call with an owner and a
\* repo leaves exactly one row for its tuple.
C12_OneRowPerScopedTuple ==
    [][(StoreCallOf("save_label_filter") /\ IsSome(dbLast'.owner)) =>
          Cardinality({i \in 1..Len(db'.label_filters) :
                          /\ db'.label_filters[i].label_name = Unwrap(dbLast'.label)
                          /\ db'.label_filters[i].repo_owner = dbLast'.owner
                          /\ db'.label_filters[i].repo_name = dbLast'.repo}) = 1]_vars

C13_WitnessSameVersion ==
    /\ dbLast.op = "load_cache"
    /\ dbLast.n > 0
    /\ dbLast.found = Some(CACHE_VERSION)
    /\ dbLast.rows_found = 3
    /\ Len(db.pull_requests) + Len(db.label_filters) = 3

\* C14: every call of a cache store function is made by the main loop
\* thread, never by a fetch worker thread.
C14_StoreCallsOnMainThread == dbLast.thread = "main"

\* The failed flags of a step list.
FailedSteps(steps) == {i \in 1..Len(steps) : steps[i].is_failed}

\* C15: fetch_circleci_job_logs on a job whose first step carries k > 1
\* actions yields exactly k top-level containers, each with as many sub-steps
\* as the job has steps and failed iff at least one of its sub-steps is
\* failed; on a job whose first step carries at most one action it yields
\* one top-level step per job step, none with sub-steps.
C15_ReconstructedTree ==
    IsSome(circle) =>
        LET d == Unwrap(circle).details
            job == IF IsSome(d) THEN Unwrap(d) ELSE <<>>
            out == IF IsSome(Unwrap(circle).logs.steps)
                   THEN Unwrap(Unwrap(circle).logs.steps) ELSE <<>>
            k == IF job = <<>> THEN 0 ELSE Len(job[1].actions)
        IN IF k > 1
           THEN /\ Len(out) = k
                /\ \A c \in 1..k :
                       /\ IsSome(out[c].sub_steps)
                       /\ Len(Unwrap(out[c].sub_steps)) = Len(job)
                       /\ out[c].is_failed <=> FailedSteps(Unwrap(out[c].sub_steps)) # {}
           ELSE /\ Len(out) = Len(job)
                /\ \A i \in 1..Len(out) : IsNone(out[i].sub_steps)

\* A job of two steps, the first with two actions, the second with one: the
\* second container's failed sub-step is not its first one.
C15_Witness ==
    /\ IsSome(circle)
    /\ IsSome(Unwrap(circle).details)
    /\ Len(Unwrap(Unwrap(circle).details)) = 2
    /\ Len(Unwrap(Unwrap(circle).details)[1].actions) = 2
    /\ IsSome(Unwrap(circle).logs.steps)
    /\ LET out == Unwrap(Unwrap(circle).logs.steps)
       IN /\ ~out[1].is_failed
          /\ out[2].is_failed
          /\ FailedSteps(Unwrap(out[2].sub_steps)) = {2}
    /\ app.job_logs = Some(Unwrap(circle).logs)

\* A job whose first step carries one action, and a later step two.
C15_WitnessFlat ==
    /\ IsSome(circle)
    /\ IsSome(Unwrap(circle).details)
    /\ Len(Unwrap(Unwrap(circle).details)) = 2
    /\ Len(Unwrap(Unwrap(circle).details)[1].actions) = 1
    /\ Len(Unwrap(Unwrap(circle).details)[2].actions) = 2
    /\ IsSome(Unwrap(circle).logs.steps)

\* The failed entries of a step tree that are not containers, as <<i, j>>:
\* 0-based step i, and 0-based sub-step j or -1 for a step without sub-steps.
FailedLeaves(steps) ==
    {<<i - 1, 0 - 1>> : i \in {i \in 1..Len(steps) :
                                  IsNone(steps[i].sub_steps) /\ steps[i].is_failed}}
    \cup UNION {{<<i - 1, j - 1>> : j \in FailedSteps(Unwrap(steps[i].sub_steps))} :
                   i \in {i \in 1..Len(steps) : IsSome(steps[i].sub_steps)}}

\* C16: when a JobLogsSuccess carrying a reconstructed step tree is applied
\* and exactly one step or sub-step of the tree is failed, the selected step
\* is that step or its container and the selected sub-step is that sub-step
\* (none for a step without sub-steps); when nothing is failed the selected
\* step is the first entry and no sub-step is selected.
C16_SelectionLandsOnFailure ==
    [][(/\ DeliveryOn("circleci")
        /\ lastMsg'.result.kind = "JobLogsSuccess"
        /\ IsSome(lastMsg'.result.logs.steps)) =>
          LET failed == FailedLeaves(Unwrap(lastMsg'.result.logs.steps))
          IN /\ Cardinality(failed) = 1 =>
                    \E f \in failed :
                        /\ app'.job_logs_selected_step = f[1]
                        /\ app'.job_logs_selected_sub_step =
                               IF f[2] < 0 THEN None ELSE Some(f[2])
             /\ failed = {} =>
                    /\ app'.job_logs_selected_step = 0
                    /\ app'.job_logs_selected_sub_step = None]_vars

\* A tree of two containers whose one failed entry is the second sub-step of
\* the second container has been applied.
C16_Witness ==
    /\ lastMsg.kind = "JobLogsReceived"
    /\ lastMsg.result.kind = "JobLogsSuccess"
    /\ IsSome(lastMsg.result.logs.steps)
    /\ FailedLeaves(Unwrap(lastMsg.result.logs.steps)) = {<<1, 1>>}
    /\ app.job_logs_selected_step = 1
    /\ app.job_logs_selected_sub_step = Some(1)

\* C17: PreviewScrollDown at offset 40 of 50 total lines yields offset 43,
\* three lines down; every PreviewScrollDown yields the lesser of the offset
\* plus three and the total less five (or zero), so none yields an offset
\* above total_lines - 5 where the total is five or more.
C17_ScrollDownClamped ==
    [][UserStep("PreviewScrollDown") =>
          LET max_scroll == IF app.preview_total_lines > 5
                            THEN app.preview_total_lines - 5 ELSE 0
          IN /\ app'.preview_scroll <= max_scroll
             /\ app'.preview_scroll \in {app.preview_scroll + 3, max_scroll}
             /\ (app.preview_total_lines = 50 /\ app.preview_scroll = 40)
                    => app'.preview_scroll = 43]_vars

\* The scroll-down from offset 40 of 50 has happened.
C17_Witness ==
    /\ lastMsg.kind = "PreviewScrollDown"
    /\ app.preview_total_lines = 50
    /\ app.preview_section_index = 1
    /\ app.preview_scroll = 43

\* C17 as stated: PreviewScrollDown at offset 40 of 50 total lines yields
\* offset 45, and no PreviewScrollDown yields an offset above total_lines - 5.
C17_ScrollDownFrom40Yields45 ==
    [][UserStep("PreviewScrollDown") =>
          /\ (app.preview_total_lines = 50 /\ app.preview_scroll = 40)
                 => app'.preview_scroll = 45
          /\ app.preview_total_lines >= 5
                 => app'.preview_scroll <= app.preview_total_lines - 5]_vars

\* The filtered index list is the one computed from the current list of the
\* active filter and the query, and the cursor is on row 0 of it, or unset
\* if it is empty.
FilteredAndOnFirstRow(a) ==
    /\ a.filtered_indices = filter_prs(current_prs(a), a.search_query)
    /\ a.table_state = IF a.filtered_indices = <<>> THEN None ELSE Some(0)

\* C18: after every SearchInput or SearchBackspace message, and after every
\* SwitchTab message to a filter other than the active one, the filtered
\* index list has been recomputed against the current list of the active
\* filter and the cursor is on row 0, or unset if the list is empty; a
\* SwitchTab message to the active filter changes nothing.
C18_RecomputedAndReset ==
    [][/\ (\/ UserStep("SearchInput")
           \/ UserStep("SearchBackspace")
           \/ UserStep("SwitchTab") /\ lastMsg'.filter # app.pr_filter)
          => FilteredAndOnFirstRow(app')
       /\ (UserStep("SwitchTab") /\ lastMsg'.filter = app.pr_filter)
          => app' = app]_vars

\* The first key has switched to the review tab, whose list is not empty.
C18_Witness ==
    /\ keys = 1
    /\ lastMsg.kind = "SwitchTab"
    /\ app.pr_filter = FilterReviewRequested
    /\ app.filtered_indices # <<>>
    /\ app.table_state = Some(0)

\* C18 as stated: after every SearchInput, SearchBackspace or SwitchTab
\* message the filtered index list has been recomputed and the cursor is on
\* row 0, or unset if the list is empty.
C18_EverySwitchTabResets ==
    [][(\/ UserStep("SearchInput")
        \/ UserStep("SearchBackspace")
        \/ UserStep("SwitchTab"))
       => FilteredAndOnFirstRow(app')]_vars

\* The three PR buckets, each by its filter.
BucketsOf(a) == <<a.my_prs, a.review_prs, a.labels_prs>>

\* C19: the step that applies a PR-list fetch error shows the error popup
\* with the error text and leaves the three PR buckets as they were; a
\* DismissError message hides the popup and leaves the buckets and the
\* filtered index list as they were.
C19_FetchErrorKeepsLists ==
    [][/\ (DeliveryOn("prs") /\ lastMsg'.result.kind = "Error")
          => /\ app'.show_error_popup
             /\ app'.error = Some(lastMsg'.result.e)
             /\ BucketsOf(app') = BucketsOf(app)
       /\ UserStep("DismissError")
          => /\ ~app'.show_error_popup
             /\ BucketsOf(app') = BucketsOf(app)
             /\ app'.filtered_indices = app.filtered_indices]_vars

\* The popup of a failed fetch has been dismissed over a list that is not empty.
C19_Witness ==
    /\ lastMsg.kind = "DismissError"
    /\ ~app.show_error_popup
    /\ app.error = Some(<<"fetch failed">>)
    /\ app.my_prs # <<>>
    /\ delivered["prs"] > 0

\* The loading flags of the buckets other than the one of filter kind.
OtherLoadingFlags(a, kind) ==
    <<kind = "MyPrs" \/ a.loading_my_prs,
      kind = "ReviewRequested" \/ a.loading_review_prs,
      kind = "Labels" \/ a.loading_labels_prs>>

\* C20: the step that applies the error result of a PR-list fetch for one
\* filter changes neither the bucket nor the loading flag of another filter.
C20_ErrorKeepsOtherLoadingFlags ==
    [][(DeliveryOn("prs") /\ lastMsg'.result.kind = "Error")
       => LET kind == Head(resQ["prs"]).req.filter.kind
          IN /\ BucketsOf(app') = BucketsOf(app)
             /\ OtherLoadingFlags(app', kind) = OtherLoadingFlags(app, kind)]_vars

\* The step is a ConfirmCheckout on a pending branch whose checkout_branch
\* call returned an error.
FailedCheckoutStep ==
    /\ UserStep("ConfirmCheckout")
    /\ lastMsg'.checkout.kind = "Err"
    /\ IsSome(app.pending_checkout_branch)

\* C21: a ConfirmCheckout whose checkout fails shows the error popup and
\* leaves the checkout confirmation pending, the branch still recorded and
\* its popup up, so that a further ConfirmCheckout retries the same branch;
\* and only an update() call whose checkout succeeded returns ExitAfterCheckout.
C21_FailedCheckoutStaysPending ==
    [][/\ FailedCheckoutStep
          => /\ app'.show_error_popup
             /\ app'.pending_checkout_branch = app.pending_checkout_branch
             /\ app'.show_checkout_popup
       /\ IsCmd(lastCmd', "ExitAfterCheckout")
          => /\ lastMsg'.kind = "ConfirmCheckout"
             /\ lastMsg'.checkout.kind = "Ok"]_vars

\* The fetch kinds a message is the error result of.
FailedKinds(msg) ==
    IF msg.kind \in {"FetchComplete", "ActionsDataReceived", "JobLogsReceived",
                     "PreviewDataReceived"}
    THEN CASE msg.result.kind = "Error" -> {"prs"}
           [] msg.result.kind = "ActionsError" -> {"actions"}
           [] msg.result.kind = "JobLogsError" -> {"job_logs", "circleci"}
           [] msg.result.kind = "PreviewError" -> {"preview"}
           [] OTHER -> {}
    ELSE {}

\* C22: when the latest update() call applied the error result of a fetch
\* kind, the next update() call submits a request of that kind only if it is
\* the call of a user message: neither the CI poll nor the main-list
\* auto-refresh re-issues the failed fetch.
C22_NoAutomaticRetry ==
    [][\A p \in FailedKinds(lastMsg) :
           submitted'[p] > submitted[p] => keys' = keys + 1]_vars

\* The App after run_app has applied a message: update(), then
\* handle_command on the command it returned.
Applied(a, msg) ==
    LET r == update(a, msg, env)
    IN IF IsNone(r.cmd) THEN r.app ELSE handle_command(r.app, Unwrap(r.cmd))

\* The step applies a result of some pipeline.
AnyDelivery == \E p \in Pipelines : DeliveryOn(p)

\* C23: in the state a fetch-result message has just been applied in
\* (PR list, CI data, job logs or preview; success or error), applying the
\* same message once more leaves the App as it is.
C23_ResultAppliedTwice ==
    [][AnyDelivery => Applied(app', lastMsg') = app']_vars

\* A PR-list result resolved the pending workflows view and started the CI
\* fetch; the same result applied again starts none and changes nothing.
C23_Witness ==
    /\ lastMsg.kind = "FetchComplete"
    /\ IsCmd(lastCmd, "StartActionsFetch")
    /\ IsNone(update(app, lastMsg, env).cmd)
    /\ Applied(app, lastMsg) = app

\* The summary of a job matches the empty-findings signature.
EmptyFindings(job) ==
    /\ IsSome(job.summary)
    /\ \E i \in 1..Len(Unwrap(job.summary)) : Unwrap(job.summary)[i] = "reviewdog"
    /\ \E i \in 1..Len(Unwrap(job.summary)) : Unwrap(job.summary)[i] = "Findings (0)"

\* The text OpenJobLogs has put on show, with no annotation view and no fetch.
TextShown(a, cmd, content) ==
    /\ IsNone(cmd)
    /\ ~a.annotations_view
    /\ ~a.job_logs_loading
    /\ IsSome(a.job_logs)
    /\ Unwrap(a.job_logs).content = content

\* C24: OpenJobLogs on the selected job: with at least one annotation the
\* annotation view opens and no command is returned, whatever the summary,
\* text and URL; else with a summary of the empty-findings signature the
\* synthetic no-issues text is shown and no command is returned; else with
\* a non-empty summary or text the formatted text is shown and no command is
\* returned; and a log fetch is returned or set loading in none of these cases.
C24_JobLogsPriorityOrder ==
    [][(UserStep("OpenJobLogs") /\ IsSome(get_selected_job(app)))
       => LET job == Unwrap(get_selected_job(app))
          IN /\ app'.show_job_logs
             /\ IF job.annotations # <<>>
                THEN /\ IsNone(lastCmd')
                     /\ app'.annotations_view
                     /\ app'.annotations = job.annotations
                     /\ ~app'.job_logs_loading
                ELSE IF EmptyFindings(job)
                THEN TextShown(app', lastCmd', "No issues found")
                ELSE IF \/ IsSome(job.summary) /\ Unwrap(job.summary) # <<>>
                        \/ IsSome(job.text) /\ Unwrap(job.text) # <<>>
                THEN TextShown(app', lastCmd', "Summary and details")
                ELSE /\ ~app'.annotations_view
                     /\ IsSome(lastCmd') \/ ~app'.job_logs_loading]_vars

\* OpenJobLogs has opened the annotation view on a job whose summary has the
\* empty-findings signature and whose text is not empty.
C24_Witness ==
    /\ lastMsg.kind = "OpenJobLogs"
    /\ app.annotations_view
    /\ IsSome(get_selected_job(app))
    /\ EmptyFindings(Unwrap(get_selected_job(app)))
    /\ Unwrap(get_selected_job(app)).text = Some(<<"details">>)
    /\ IsNone(lastCmd)

\* The (step, sub-step) selection and the expansion flags of the job-log view.
Selection(a) == <<a.job_logs_selected_step, a.job_logs_selected_sub_step>>
Expansion(a) == <<a.job_logs_expanded_steps, a.job_logs_expanded_sub_steps>>

\* The job-log view shows a step tree.
HasStepTree(a) == IsSome(a.job_logs) /\ IsSome(Unwrap(a.job_logs).steps)

\* C25: JobLogsNextStep on a step tree changes no expansion flag and moves
\* the selection: from the row of an expanded step with sub-steps to its
\* first sub-step; from a sub-step that is not the last to the next
\* sub-step; from the last sub-step, and from the row of a collapsed step or
\* of a step without sub-steps, to the next top-level step; and from the
\* last row nowhere.
C25_NextStepMoves ==
    [][(UserStep("JobLogsNextStep") /\ HasStepTree(app))
       => LET steps == Unwrap(Unwrap(app.job_logs).steps)
              s == app.job_logs_selected_step
              sub == app.job_logs_selected_sub_step
              n == IF s < Len(steps) /\ IsSome(steps[s + 1].sub_steps)
                   THEN Len(Unwrap(steps[s + 1].sub_steps)) ELSE 0
              expanded == s < Len(app.job_logs_expanded_steps)
                          /\ app.job_logs_expanded_steps[s + 1]
              next_top == IF s + 1 < Len(steps) THEN <<s + 1, None>> ELSE Selection(app)
          IN /\ Expansion(app') = Expansion(app)
             /\ Selection(app') =
                    IF IsNone(sub)
                    THEN IF expanded /\ n > 0 THEN <<s, Some(0)>> ELSE next_top
                    ELSE IF Unwrap(sub) + 1 < n THEN <<s, Some(Unwrap(sub) + 1)>>
                         ELSE next_top]_vars

\* JobLogsNextStep has moved from the last sub-step of the first container
\* to the row of the second container.
C25_Witness ==
    /\ lastMsg.kind = "JobLogsNextStep"
    /\ HasStepTree(app)
    /\ Selection(app) = <<1, None>>
    /\ IsExpanded(app, 0)
    /\ SubStepsOf(Unwrap(Unwrap(app.job_logs).steps), 0) # <<>>

\* C26: in every reachable job-log state where JobLogsNextStep changes the
\* selection, JobLogsPrevStep applied right after it restores the selection,
\* and where JobLogsPrevStep changes the selection, JobLogsNextStep applied
\* right after it restores it.
C26_PrevUndoesNext ==
    HasStepTree(app) =>
        LET next == job_logs_next_step(app)
            prev == job_logs_prev_step(app)
        IN /\ Selection(next) # Selection(app)
                  => Selection(job_logs_prev_step(next)) = Selection(app)
           /\ Selection(prev) # Selection(app)
                  => Selection(job_logs_next_step(prev)) = Selection(app)

\* JobLogsPrevStep has landed on the last sub-step of an expanded container,
\* from where JobLogsNextStep moves back to the next container.
C26_Witness ==
    /\ lastMsg.kind = "JobLogsPrevStep"
    /\ HasStepTree(app)
    /\ IsSome(app.job_logs_selected_sub_step)
    /\ Unwrap(app.job_logs_selected_sub_step) + 1 =
           Len(SubStepsOf(Unwrap(Unwrap(app.job_logs).steps), app.job_logs_selected_step))
    /\ Unwrap(app.job_logs_selected_sub_step) > 0
    /\ Selection(job_logs_next_step(app)) = <<app.job_logs_selected_step + 1, None>>

\* The step applies a successful CI result.
ActionsSuccessStep ==
    /\ DeliveryOn("actions")
    /\ lastMsg'.kind = "ActionsDataReceived"
    /\ lastMsg'.result.kind = "ActionsSuccess"

\* A job is still running: queued, in progress or pending.
StillRunning(job) == job.status \in {"Queued", "InProgress", "Pending"}

\* Some job of the runs is still running.
AnyJobRunning(runs) ==
    \E r \in 1..Len(runs) : \E i \in 1..Len(runs[r].jobs) : StillRunning(runs[r].jobs[i])

\* C27: after a successful CI result is applied, CI polling is enabled
\* exactly when at least one job of the result is still running (queued, in
\* progress or pending).
C27_PollingIffJobRunning ==
    [][ActionsSuccessStep
       => (app'.actions_poll_enabled
              <=> AnyJobRunning(lastMsg'.result.data.workflow_runs))]_vars

\* C28: after a successful CI result is applied, the selected job index is
\* the position, in the run-by-run order of all jobs, of the first job whose
\* conclusion is failure, timed out or startup failure, and 0 when there is
\* none; it names a job whenever the result has one.
C28_FirstFailedJobSelected ==
    [][ActionsSuccessStep
       => LET runs == lastMsg'.result.data.workflow_runs
              total == SumOver([r \in 1..Len(runs) |-> Len(runs[r].jobs)], 1..Len(runs))
              before(r, i) ==
                  SumOver([q \in 1..Len(runs) |-> Len(runs[q].jobs)], 1..(r - 1)) + i - 1
              failed == {k \in 0..(total - 1) :
                            \E r \in 1..Len(runs) : \E i \in 1..Len(runs[r].jobs) :
                                /\ before(r, i) = k
                                /\ IsSome(runs[r].jobs[i].conclusion)
                                /\ Unwrap(runs[r].jobs[i].conclusion)
                                       \in {"Failure", "TimedOut", "StartupFailure"}}
              idx == app'.selected_job_index
          IN /\ IF failed = {} THEN idx = 0
                ELSE idx \in failed /\ \A k \in failed : idx <= k
             /\ total > 0 => idx < total]_vars

\* A result whose first failed job is the second job of its second run, the
\* fourth of all, has been applied.
C28_Witness ==
    /\ lastMsg.kind = "ActionsDataReceived"
    /\ lastMsg.result.kind = "ActionsSuccess"
    /\ Len(lastMsg.result.data.workflow_runs) = 2
    /\ Len(lastMsg.result.data.workflow_runs[1].jobs) = 2
    /\ Len(lastMsg.result.data.workflow_runs[2].jobs) = 3
    /\ lastMsg.result.data.workflow_runs[2].jobs[2].conclusion = Some("TimedOut")
    /\ app.selected_job_index = 3

\* The step is an update() call the scheduler of run_app made with kind.
SchedulerStep(kind) == lastMsg'.kind = kind /\ keys' = keys /\ lastMsg' # lastMsg

\* C29: the scheduler sends the main-list Refresh only in states where
\* neither the workflows view nor the preview view nor any popup is open, no
\* PR-list bucket is loading, and 30 s have passed since the last PR-list
\* fetch was started.
C29_AutoRefreshOnlyWhenIdle ==
    [][SchedulerStep("Refresh")
       => /\ ~app.show_workflows_view
          /\ ~app.show_preview_view
          /\ ~app.show_help_popup
          /\ ~app.show_checkout_popup
          /\ ~app.show_error_popup
          /\ ~app.show_labels_popup
          /\ ~app.show_add_label_popup
          /\ IsNone(app.show_url_popup)
          /\ ~app.loading_my_prs
          /\ ~app.loading_review_prs
          /\ ~app.loading_labels_prs
          /\ app.main_refresh_elapsed]_vars

\* C30: the scheduler sends the CI poll only in states where the workflows
\* view is open, the CI data shown has at least one job still unresolved,
\* and 30 s have passed since the last CI request was submitted; with the
\* view closed it sends none.
C30_PollOnlyWithUnresolvedJobs ==
    [][SchedulerStep("RefreshActions")
       => /\ app.show_workflows_view
          /\ IsSome(app.actions_data)
          /\ AnyJobRunning(Unwrap(app.actions_data).workflow_runs)
          /\ app.actions_poll_elapsed]_vars

\* C31: while the job-logs view is closed no job log is retained in the
\* state, also after a job-log result that arrives late.
C31_NoLogWhileViewClosed == (~app.show_job_logs) => IsNone(app.job_logs)

\* The rows stored under the key of the last store call.
RowsUnderKey(d, last) ==
    SelectSeq(d.pull_requests,
              LAMBDA r : /\ r.repo_owner = last.owner
                         /\ r.repo_name = last.repo
                         /\ r.filter = last.filter)

\* C32: after save_cache returns, with Ok or with an error raised part-way
\* through, the rows stored under its key are exactly the new list or exactly
\* the rows stored before the call.
C32_SaveNeverPartial ==
    [][(dbLast'.n = dbLast.n + 1 /\ dbLast'.op \in {"save_cache", "save_cache_err"})
       => \/ RowsUnderKey(db', dbLast') =
                 [i \in 1..Len(dbLast'.prs) |->
                     [PullRequestsRow(dbLast'.prs[i], FilterMyPrs)
                          EXCEPT !.filter = dbLast'.filter]]
          \/ RowsUnderKey(db', dbLast') = RowsUnderKey(db, dbLast')]_vars

\* C33: while the workflows view is open and CI data is present, the PR
\* number carried by the CI data is the PR number the view was opened for.
C33_CiDataOfOpenedPr ==
    (app.show_workflows_view /\ IsSome(app.actions_data))
        => /\ IsSome(app.workflows_pr_info)
           /\ Unwrap(app.actions_data).pr_number = Unwrap(app.workflows_pr_info)

\* The job_id of the JobLogs that open_job_logs shows or fetches for job: the
\* CircleCI job number when the CircleCI backend serves it, else the job's id.
LogIdOf(job, e) ==
    IF /\ job.annotations = <<>>
       /\ ~(NonEmpty(job.summary) \/ NonEmpty(job.text))
       /\ IsSome(job.details_url)
       /\ is_circleci_url(Unwrap(job.details_url))
       /\ is_circleci_configured(e)
       /\ IsSome(extract_job_number_from_url(Unwrap(job.details_url)))
    THEN Unwrap(extract_job_number_from_url(Unwrap(job.details_url)))
    ELSE job.id

\* No job-log request is on its way in either backend.
LogsSettled == InFlight("job_logs") = <<>> /\ InFlight("circleci") = <<>>

\* C34: once every job-log request in flight has been serviced and applied,
\* the job log held while the job-logs view is open is the log of the job
\* that was opened most recently.
C34_LogOfLatestOpenedJob ==
    (app.show_job_logs /\ IsSome(opened) /\ LogsSettled /\ IsSome(app.job_logs))
        => Unwrap(app.job_logs).job_id = LogIdOf(Unwrap(opened), env)

\* C35: every StartActionsFetch command that RefreshActions produces while
\* the workflows view is open names the PR the view was opened for.
C35_RefreshNamesOpenedPr ==
    [][(/\ lastMsg'.kind = "RefreshActions"
        /\ submitted'["actions"] = submitted["actions"] + 1
        /\ app.show_workflows_view)
       => /\ IsSome(app.workflows_pr_info)
          /\ Unwrap(lastCmd').pr_number = Unwrap(app.workflows_pr_info)]_vars

\* C36: whenever the workflows view is open with a PR number pending for its
\* head commit id, and every submitted fetch returns, the pending number is
\* eventually cleared and the CI loading flag eventually false, with no
\* further user input (or the application has quit).
C36_PendingEventuallyResolved ==
    (app.show_workflows_view /\ IsSome(app.actions_pending_pr_number))
        ~> ((IsNone(app.actions_pending_pr_number) /\ ~app.actions_loading) \/ ~running)

\* C37: the list cursor is unset or a valid position in the filtered index
\* list, so that a selected row always denotes a PR.
C37_CursorInFilteredList ==
    IsSome(app.table_state) => Unwrap(app.table_state) < Len(app.filtered_indices)

\* C38: the filtered index list is the result of filtering the active
\* filter's current bucket with the current search query; in particular every
\* index in it is a valid index into that bucket.
C38_FilteredIndicesCurrent ==
    /\ app.filtered_indices = filter_prs(current_prs(app), app.search_query)
    /\ \A i \in 1..Len(app.filtered_indices) :
           app.filtered_indices[i] >= 0 /\ app.filtered_indices[i] < Len(current_prs(app))

\* A result for the displayed filter was applied while a search query hides
\* one of its PRs.
C38_Witness ==
    /\ LastIsSuccess
    /\ lastMsg.result.filter.kind = app.pr_filter.kind
    /\ app.search_query # <<>>
    /\ app.filtered_indices # <<>>
    /\ Len(app.filtered_indices) < Len(current_prs(app))

\* A container of the tree is failed iff one of its sub-steps is failed.
ConsistentTree(steps) ==
    \A i \in 1..Len(steps) :
        IsSome(steps[i].sub_steps)
            => (steps[i].is_failed
                    <=> \E j \in 1..Len(Unwrap(steps[i].sub_steps)) :
                            Unwrap(steps[i].sub_steps)[j].is_failed)

\* C39: where a job log with steps is held (a container of it failed iff
\* one of its sub-steps is), the selected step index is smaller than the
\* number of steps, and a sub-step is selected only if the selected step has
\* sub-steps, is expanded, and the selected sub-step index is smaller than
\* the number of its sub-steps.
C39_StepSelectionInTree ==
    (HasStepTree(app) /\ ConsistentTree(Unwrap(Unwrap(app.job_logs).steps)))
        => LET steps == Unwrap(Unwrap(app.job_logs).steps)
               s == app.job_logs_selected_step
               sub == app.job_logs_selected_sub_step
           IN /\ s < Len(steps)
              /\ IsSome(sub)
                     => /\ IsSome(Get(steps, s))
                        /\ IsSome(Unwrap(Get(steps, s)).sub_steps)
                        /\ IsExpanded(app, s)
                        /\ Unwrap(sub) < Len(SubStepsOf(steps, s))

\* The user has folded and unfolded rows and stands on a sub-step of a
\* container that is not the first.
C39_Witness ==
    /\ lastMsg.kind = "JobLogsToggleStep"
    /\ HasStepTree(app)
    /\ app.job_logs_selected_step >= 1
    /\ IsSome(app.job_logs_selected_sub_step)
    /\ IsExpanded(app, app.job_logs_selected_step)

\* C40: in every state the host loop reaches, where user messages are those
\* key_to_message answers and all other messages are fetch results and
\* scheduled refreshes, the view flags are well nested: the job-logs view is
\* active only while the workflows view is active, and the workflows view and
\* the preview view are never both active.
C40_ViewFlagsWellNested ==
    host_only
        => /\ app.show_job_logs => app.show_workflows_view
           /\ ~(app.show_workflows_view /\ app.show_preview_view)

\* The job-logs view is open inside the workflows view after the preview view
\* was opened, its result applied, and closed.
C40_Witness ==
    /\ host_only
    /\ app.show_job_logs
    /\ app.show_workflows_view
    /\ ~app.show_preview_view
    /\ lastMsg.kind = "OpenJobLogs"
    /\ delivered["preview"] >= 1

====
